---------------------------- MODULE Spec2Model ----------------------------
(***************************************************************************)
(* A model of the issue detection, auto-adoption and patch correction      *)
(* pipeline of the OCR fixer (backend/services, backend/api, worker/tasks).*)
(*                                                                         *)
(* Conventions                                                             *)
(*   - a text is a sequence of characters, each a string: an ASCII         *)
(*     character stands for itself, "<25A1>" for U+25A1, "<TE>" for the    *)
(*     katakana te, "<YAMA>" for the kanji yama, "<EN>" for the yen sign;  *)
(*   - a confidence is an integer number of hundredths (0.85 is 85);       *)
(*   - Python's None is the empty tuple, a present value v is <<v>>;       *)
(*   - an image is a record [width, height, pix] whose pix maps <<x, y>>   *)
(*     (0-based, x < width, y < height) to a pixel value.                  *)
(***************************************************************************)
EXTENDS Integers, Sequences, FiniteSets, TLC

None == << >>
Some(v) == << v >>

Max2(a, b) == IF a >= b THEN a ELSE b
Min2(a, b) == IF a <= b THEN a ELSE b
Abs(a) == IF a >= 0 THEN a ELSE 0 - a

(***************************************************************************)
(* Characters.  The classes are those of Python's re module, restricted    *)
(* to the characters the model's texts are written with.                   *)
(***************************************************************************)
DigitChars == {"0", "1", "2", "3", "4", "5", "6", "7", "8", "9"}
UpperChars == {"A", "B", "C", "D", "E", "F", "G", "H", "I", "J", "K", "L", "M",
               "N", "O", "P", "Q", "R", "S", "T", "U", "V", "W", "X", "Y", "Z"}
LowerChars == {"a", "b", "c", "d", "e", "f", "g", "h", "i", "j", "k", "l", "m",
               "n", "o", "p", "q", "r", "s", "t", "u", "v", "w", "x", "y", "z"}
\* the katakana range U+30A1..U+30F6 and U+30FC: the katakana of the model's texts
KatakanaChars == {"<TE>", "<SU>", "<TO>", "<A>", "<CHOON>"}
\* the kanji range U+4E00..U+9FA5: the kanji of the model's texts; the yen sign
\* U+5186 is one of them
KanjiChars == {"<YAMA>", "<TA>", "<TAI>", "<ROU>", "<TOU>", "<KYOU>", "<EN>"}
\* \w on str patterns: Unicode alphanumerics and the underscore
WordChars == DigitChars \cup UpperChars \cup LowerChars \cup KatakanaChars
             \cup KanjiChars \cup {"_"}
\* str.strip() removes these at both ends
SpaceChars == {" "}

\* GARBLED_CHARS: U+FFFD, U+25A1, U+25A0 and the question mark
GARBLED_CHARS == {"<FFFD>", "<25A1>", "<25A0>", "?"}


\* every character of text[from..to] (1-based, inclusive) is in class
AllIn(text, from, to, class) == \A k \in from..to : text[k] \in class

\* the literal lit occurs in text starting at 1-based position i
LitAt(text, i, lit) ==
    /\ i + Len(lit) - 1 <= Len(text)
    /\ \A k \in 1..Len(lit) : text[i + k - 1] = lit[k]

\* re.search of a literal
HasLit(text, lit) == \E i \in 1..Len(text) : LitAt(text, i, lit)

\* re.search of class{n,}
HasRun(text, class, n) ==
    \E i \in 1..Len(text) :
        /\ i + n - 1 <= Len(text)
        /\ AllIn(text, i, i + n - 1, class)

\* str.strip()
RECURSIVE LStrip(_)
LStrip(text) ==
    IF Len(text) > 0 /\ Head(text) \in SpaceChars THEN LStrip(Tail(text)) ELSE text

RECURSIVE RStrip(_)
RStrip(text) ==
    IF Len(text) > 0 /\ text[Len(text)] \in SpaceChars
    THEN RStrip(SubSeq(text, 1, Len(text) - 1))
    ELSE text

Strip(text) == RStrip(LStrip(text))

\* set(text)
CharSet(text) == {text[k] : k \in 1..Len(text)}

(***************************************************************************)
(* detection_service.contains_sensitive_pattern: one operator per regex    *)
(***************************************************************************)
\* \d{4,}
ReLongNumber(text) == HasRun(text, DigitChars, 4)

\* https?://
ReUrlScheme(text) ==
    \/ HasLit(text, <<"h", "t", "t", "p", ":", "/", "/">>)
    \/ HasLit(text, <<"h", "t", "t", "p", "s", ":", "/", "/">>)

\* www\.
ReWww(text) == HasLit(text, <<"w", "w", "w", ".">>)

\* [\w.-]+@[\w.-]+\.\w+
ReEmail(text) ==
    LET local == WordChars \cup {".", "-"} IN
    \E at \in 2..Len(text) :
        /\ text[at] = "@"
        /\ text[at - 1] \in local
        /\ \E dot \in (at + 2)..(Len(text) - 1) :
              /\ text[dot] = "."
              /\ AllIn(text, at + 1, dot - 1, local)
              /\ text[dot + 1] \in WordChars

\* \d{4}[-/]\d{1,2}[-/]\d{1,2}
ReDate(text) ==
    \E i \in 1..Len(text) : \E m \in 1..2 :
        /\ i + 4 + m + 1 + 1 <= Len(text)
        /\ AllIn(text, i, i + 3, DigitChars)
        /\ text[i + 4] \in {"-", "/"}
        /\ AllIn(text, i + 5, i + 4 + m, DigitChars)
        /\ text[i + 5 + m] \in {"-", "/"}
        /\ text[i + 6 + m] \in DigitChars

\* [\d,]+<EN>
ReYen(text) ==
    \E i \in 1..(Len(text) - 1) :
        text[i] \in DigitChars \cup {","} /\ text[i + 1] = "<EN>"

\* \$[\d,]+
ReDollar(text) ==
    \E i \in 1..(Len(text) - 1) :
        text[i] = "$" /\ text[i + 1] \in DigitChars \cup {","}

\* [A-Z]{2,}\d+
ReProductCode(text) ==
    \E i \in 3..Len(text) :
        /\ text[i] \in DigitChars
        /\ text[i - 1] \in UpperChars
        /\ text[i - 2] \in UpperChars

\* \d+-\d+-\d+
RePhone(text) ==
    \E i \in 2..Len(text) : \E j \in (i + 2)..(Len(text) - 1) :
        /\ text[i] = "-"
        /\ text[i - 1] \in DigitChars
        /\ AllIn(text, i + 1, j - 1, DigitChars)
        /\ text[j] = "-"
        /\ text[j + 1] \in DigitChars

contains_sensitive_pattern(text) ==
    \/ ReLongNumber(text)
    \/ ReUrlScheme(text)
    \/ ReWww(text)
    \/ ReEmail(text)
    \/ ReDate(text)
    \/ ReYen(text)
    \/ ReDollar(text)
    \/ ReProductCode(text)
    \/ RePhone(text)

(***************************************************************************)
(* detection_service.looks_like_proper_noun                                *)
(***************************************************************************)
\* the mutant: a short kanji string is not taken for a name
looks_like_proper_noun_NoKanji(text) ==
    \/ /\ Len(text) >= 1
       /\ AllIn(text, 1, Len(text), KatakanaChars)
       /\ Len(text) <= 10
    \/ /\ Len(text) >= 2
       /\ text[1] \in UpperChars
       /\ AllIn(text, 2, Len(text), LowerChars)

looks_like_proper_noun(text) ==
    \* ^[katakana]+$ and len(text) <= 10
    \/ /\ Len(text) >= 1
       /\ AllIn(text, 1, Len(text), KatakanaChars)
       /\ Len(text) <= 10
    \* ^[kanji]+$ and len(text) <= 4
    \/ /\ Len(text) >= 1
       /\ AllIn(text, 1, Len(text), KanjiChars)
       /\ Len(text) <= 4
    \* ^[A-Z][a-z]+$
    \/ /\ Len(text) >= 2
       /\ text[1] \in UpperChars
       /\ AllIn(text, 2, Len(text), LowerChars)

(***************************************************************************)
(* detection_service._text_similarity > 0.8                                *)
(***************************************************************************)
\* s.lower() on the model's characters
LowerOf(c) ==
    CASE c = "A" -> "a" [] c = "B" -> "b" [] c = "C" -> "c" [] c = "D" -> "d"
      [] c = "E" -> "e" [] c = "F" -> "f" [] c = "G" -> "g" [] c = "H" -> "h"
      [] c = "I" -> "i" [] c = "J" -> "j" [] c = "K" -> "k" [] c = "L" -> "l"
      [] c = "M" -> "m" [] c = "N" -> "n" [] c = "O" -> "o" [] c = "P" -> "p"
      [] c = "Q" -> "q" [] c = "R" -> "r" [] c = "S" -> "s" [] c = "T" -> "t"
      [] c = "U" -> "u" [] c = "V" -> "v" [] c = "W" -> "w" [] c = "X" -> "x"
      [] c = "Y" -> "y" [] c = "Z" -> "z" [] OTHER -> c

Lower(text) == [k \in 1..Len(text) |-> LowerOf(text[k])]

\* _text_similarity(text1, text2) > 0.8, the ratio kept as a pair of integers
text_similarity_above_80(text1, text2) ==
    IF Len(text1) = 0 \/ Len(text2) = 0 THEN FALSE
    ELSE LET t1 == Lower(Strip(text1))
             t2 == Lower(Strip(text2))
             inter == Cardinality(CharSet(t1) \cap CharSet(t2))
             union == Cardinality(CharSet(t1) \cup CharSet(t2))
         IN  IF t1 = t2 THEN TRUE
             ELSE IF union = 0 THEN FALSE
             ELSE 10 * inter > 8 * union

(***************************************************************************)
(* detection_service.evaluate_auto_adopt                                   *)
(***************************************************************************)
\* pairs (a, b) of hundredths whose IEEE-754 difference a/100 - b/100 rounds
\* below the double 0.15 although a - b = 15
FloatGapRoundsBelow ==
    {<<29, 14>>, <<35, 20>>, <<41, 26>>, <<42, 27>>, <<43, 28>>, <<47, 32>>,
     <<48, 33>>, <<49, 34>>, <<57, 42>>, <<58, 43>>, <<59, 44>>, <<60, 45>>,
     <<61, 46>>, <<69, 54>>, <<70, 55>>, <<71, 56>>, <<82, 67>>, <<83, 68>>,
     <<94, 79>>, <<95, 80>>, <<96, 81>>}

\* top_candidate["confidence"] - candidates[1]["confidence"] < 0.15, on doubles
GapBelowThreshold(top, second) ==
    \/ top - second < 15
    \/ <<top, second>> \in FloatGapRoundsBelow

\* any(c in text for c in GARBLED_CHARS)
HasGarbled(text) == CharSet(text) \cap GARBLED_CHARS # {}

\* the mutant: the high-confidence rule is evaluated before the review rules
evaluate_auto_adopt_AcceptFirst(ocr_text, candidates, ocr_confidence) ==
    IF Len(candidates) = 0 THEN <<FALSE, None>>
    ELSE LET top_candidate == candidates[1] IN
         IF top_candidate.confidence > 90 THEN <<TRUE, Some(0)>>
         ELSE IF \/ contains_sensitive_pattern(ocr_text)
                 \/ contains_sensitive_pattern(top_candidate.text)
              THEN <<FALSE, None>>
         ELSE IF looks_like_proper_noun(top_candidate.text) THEN <<FALSE, None>>
         ELSE IF /\ Len(candidates) >= 2
                 /\ GapBelowThreshold(top_candidate.confidence, candidates[2].confidence)
              THEN <<FALSE, None>>
         ELSE IF top_candidate.confidence > 80 THEN <<TRUE, Some(0)>>
         ELSE <<FALSE, None>>

\* the mutant: every accepting rule asks for a confidence above 0.90
evaluate_auto_adopt_Strict(ocr_text, candidates, ocr_confidence) ==
    IF Len(candidates) = 0 THEN <<FALSE, None>>
    ELSE LET top_candidate == candidates[1] IN
         IF \/ contains_sensitive_pattern(ocr_text)
            \/ contains_sensitive_pattern(top_candidate.text)
         THEN <<FALSE, None>>
         ELSE IF looks_like_proper_noun(top_candidate.text) THEN <<FALSE, None>>
         ELSE IF /\ Len(candidates) >= 2
                 /\ GapBelowThreshold(top_candidate.confidence, candidates[2].confidence)
              THEN <<FALSE, None>>
         ELSE IF top_candidate.confidence > 90 THEN <<TRUE, Some(0)>>
         ELSE <<FALSE, None>>

evaluate_auto_adopt(ocr_text, candidates, ocr_confidence) ==
    \* if not candidates
    IF Len(candidates) = 0 THEN <<FALSE, None>>
    ELSE LET top_candidate == candidates[1]
             garbled_in_original == HasGarbled(ocr_text)
             garbled_in_candidate == HasGarbled(top_candidate.text)
         IN
         \* Rule 1: sensitive patterns are never auto-adopted
         IF \/ contains_sensitive_pattern(ocr_text)
            \/ contains_sensitive_pattern(top_candidate.text)
         THEN <<FALSE, None>>
         \* Rule 2: proper nouns need review
         ELSE IF looks_like_proper_noun(top_candidate.text) THEN <<FALSE, None>>
         \* Rule 3: split candidates need review
         ELSE IF /\ Len(candidates) >= 2
                 /\ GapBelowThreshold(top_candidate.confidence, candidates[2].confidence)
              THEN <<FALSE, None>>
         \* Rule 4: garbled characters removed with high confidence
         ELSE IF /\ garbled_in_original /\ ~garbled_in_candidate
                 /\ top_candidate.confidence > 85
              THEN <<TRUE, Some(0)>>
         \* Rule 5: high confidence match
         ELSE IF top_candidate.confidence > 90 THEN <<TRUE, Some(0)>>
         \* Rule 6: the OCR was confident and the top candidate is similar
         ELSE IF /\ ocr_confidence > 90 /\ top_candidate.confidence > 85
                 /\ text_similarity_above_80(ocr_text, top_candidate.text)
              THEN <<TRUE, Some(0)>>
         \* default threshold
         ELSE IF top_candidate.confidence > 80 THEN <<TRUE, Some(0)>>
         ELSE <<FALSE, None>>


(***************************************************************************)
(* detection_service.detect_issues                                         *)
(*                                                                         *)
(* An OCR block is [text, confidence, bbox], bbox = [x, y, width, height]. *)
(* A detected problem is [kind, detail]: kind is the fixed part of the     *)
(* message, detail its formatted value.                                    *)
(***************************************************************************)
\* [<FFFD><25A1><25A0>]{2,}
ReGarbledRun(text) == HasRun(text, {"<FFFD>", "<25A1>", "<25A0>"}, 2)

\* [\?\!]{3,}
RePunctRun(text) == HasRun(text, {"?", "!"}, 3)

\* [a-z][A-Z]{3,}[a-z]
ReMixedCase(text) ==
    \E i \in 1..Len(text) : \E j \in (i + 4)..Len(text) :
        /\ text[i] \in LowerChars
        /\ AllIn(text, i + 1, j - 1, UpperChars)
        /\ text[j] \in LowerChars

\* \d[a-zA-Z]\d[a-zA-Z]
ReAlternating(text) ==
    \E i \in 1..(Len(text) - 3) :
        /\ text[i] \in DigitChars
        /\ text[i + 1] \in LowerChars \cup UpperChars
        /\ text[i + 2] \in DigitChars
        /\ text[i + 3] \in LowerChars \cup UpperChars

\* any(re.search(pattern, text) for pattern in SUSPICIOUS_PATTERNS)
MatchesSuspicious(text) ==
    \/ ReGarbledRun(text)
    \/ RePunctRun(text)
    \/ ReMixedCase(text)
    \/ ReAlternating(text)

\* "Garbled" in p, for each message detect_issues writes
MentionsGarbled(p) == p.kind = "Garbled characters"

\* the mutant: the confidence floor is applied before the garbled rule
evaluate_auto_correctability_FloorFirst(text, confidence, problems) ==
    IF contains_sensitive_pattern(text) THEN FALSE
    ELSE IF confidence < 60 THEN FALSE
    ELSE IF (\E k \in 1..Len(problems) : MentionsGarbled(problems[k])) /\ confidence > 50
         THEN TRUE
    ELSE IF Len(Strip(text)) < 5 THEN FALSE
    ELSE TRUE

evaluate_auto_correctability(text, confidence, problems) ==
    IF contains_sensitive_pattern(text) THEN FALSE
    ELSE IF (\E k \in 1..Len(problems) : MentionsGarbled(problems[k])) /\ confidence > 50
         THEN TRUE
    ELSE IF confidence < 60 THEN FALSE
    ELSE IF Len(Strip(text)) < 5 THEN FALSE
    ELSE TRUE

\* Check 1: low confidence
Check1(block) == block.confidence < 80

\* Check 2: garbled characters
Check2(block) == HasGarbled(block.text)

\* Check 3: suspicious patterns
Check3(block) == MatchesSuspicious(block.text)

\* Check 4: very short text in a large box
Check4(block) ==
    /\ block.bbox.width > 100 /\ block.bbox.height > 30
    /\ Len(Strip(block.text)) < 3

\* Check 5: len(text) / (area / 1000) < 0.1 and len(text) > 5
Check5(block) ==
    /\ block.bbox.width > 0 /\ block.bbox.height > 0
    /\ Len(block.text) * 10000 < block.bbox.width * block.bbox.height
    /\ Len(block.text) > 5

\* issue_type after the five checks of one block (None when no check fired)
BlockIssueType(block) ==
    LET t1 == IF Check1(block) THEN Some("low_confidence") ELSE None
        t2 == IF Check2(block) THEN Some("garbled") ELSE t1
        t3 == IF Check3(block) /\ t2 = None THEN Some("garbled") ELSE t2
        t4 == IF Check4(block) THEN Some("missing") ELSE t3
        t5 == IF Check5(block) /\ t4 = None THEN Some("missing") ELSE t4
    IN  t5

\* detected_problems after the five checks of one block
BlockProblems(block) ==
    (IF Check1(block)
     THEN <<[kind |-> "Low OCR confidence", detail |-> <<block.confidence>>]>>
     ELSE << >>)
    \o (IF Check2(block)
        THEN <<[kind |-> "Garbled characters",
                detail |-> <<CharSet(block.text) \cap GARBLED_CHARS>>]>>
        ELSE << >>)
    \o (IF Check3(block)
        THEN <<[kind |-> "Suspicious pattern detected", detail |-> << >>]>>
        ELSE << >>)
    \o (IF Check4(block)
        THEN <<[kind |-> "Possible missing text", detail |-> << >>]>>
        ELSE << >>)
    \o (IF Check5(block)
        THEN <<[kind |-> "Low character density",
                detail |-> <<(Len(block.text) * 1000000)
                               \div (block.bbox.width * block.bbox.height)>>]>>
        ELSE << >>)

\* if issue_type and detected_problems
ProducesIssue(block) ==
    BlockIssueType(block) # None /\ Len(BlockProblems(block)) > 0

\* the issue dict appended for a block
BlockIssue(block) ==
    [bbox_x |-> block.bbox.x,
     bbox_y |-> block.bbox.y,
     bbox_width |-> block.bbox.width,
     bbox_height |-> block.bbox.height,
     issue_type |-> BlockIssueType(block)[1],
     confidence |-> Some(block.confidence),
     ocr_text |-> block.text,
     detected_problems |-> BlockProblems(block),
     status |-> "detected",
     auto_correctable |->
         evaluate_auto_correctability(block.text, block.confidence,
                                      BlockProblems(block))]

\* settings.max_issues_per_page
max_issues_per_page == 20

\* the issues list before the cap
RECURSIVE AllBlockIssues(_)
AllBlockIssues(blocks) ==
    IF Len(blocks) = 0 THEN << >>
    ELSE (IF ProducesIssue(Head(blocks)) THEN <<BlockIssue(Head(blocks))>> ELSE << >>)
         \o AllBlockIssues(Tail(blocks))


\* the mutant: the cap keeps the issues found last
detect_issues_KeepsLast(blocks) ==
    LET issues == AllBlockIssues(blocks) IN
    SubSeq(issues, Len(issues) - Min2(Len(issues), max_issues_per_page) + 1,
           Len(issues))

\* issues[:settings.max_issues_per_page]
detect_issues(blocks) ==
    LET issues == AllBlockIssues(blocks) IN
    SubSeq(issues, 1, Min2(Len(issues), max_issues_per_page))


(***************************************************************************)
(* detection_service.merge_nearby_issues                                   *)
(***************************************************************************)
\* h_dist < threshold and v_dist < threshold; the centres and the distances
\* are halves of integers, so both sides are doubled
bboxes_nearby(issue1, issue2, threshold) ==
    LET h2 == Abs((2 * issue1.bbox_x + issue1.bbox_width)
                  - (2 * issue2.bbox_x + issue2.bbox_width))
              - (issue1.bbox_width + issue2.bbox_width)
        v2 == Abs((2 * issue1.bbox_y + issue1.bbox_height)
                  - (2 * issue2.bbox_y + issue2.bbox_height))
              - (issue1.bbox_height + issue2.bbox_height)
    IN  h2 < 2 * threshold /\ v2 < 2 * threshold

\* list(set(a + b)): the distinct problems, in an order of their own (the order
\* Python gives the elements of a set is read by no operation)
RECURSIVE SetToSeq(_)
SetToSeq(S) ==
    IF S = {} THEN << >>
    ELSE LET e == CHOOSE e \in S : TRUE IN <<e>> \o SetToSeq(S \ {e})

\* the mutant: the merged issue keeps the confidence of the first one
MinConfidence_KeepsFirst(c1, c2) ==
    IF c1 = None THEN Some(100) ELSE c1

\* min(issue1.get("confidence", 1.0), issue2.get("confidence", 1.0))
MinConfidence(c1, c2) ==
    LET v1 == IF c1 = None THEN 100 ELSE c1[1]
        v2 == IF c2 = None THEN 100 ELSE c2[1]
    IN  Some(Min2(v1, v2))

\* the mutant: the merged box is as wide and as high as the two boxes together
merge_two_issues_SumsExtents(issue1, issue2) ==
    [issue1 EXCEPT
        !.bbox_x = Min2(issue1.bbox_x, issue2.bbox_x),
        !.bbox_y = Min2(issue1.bbox_y, issue2.bbox_y),
        !.bbox_width = issue1.bbox_width + issue2.bbox_width,
        !.bbox_height = issue1.bbox_height + issue2.bbox_height,
        !.ocr_text = Strip(issue1.ocr_text \o <<" ">> \o issue2.ocr_text),
        !.confidence = MinConfidence(issue1.confidence, issue2.confidence)]

merge_two_issues(issue1, issue2) ==
    LET x1 == Min2(issue1.bbox_x, issue2.bbox_x)
        y1 == Min2(issue1.bbox_y, issue2.bbox_y)
        x2 == Max2(issue1.bbox_x + issue1.bbox_width,
                   issue2.bbox_x + issue2.bbox_width)
        y2 == Max2(issue1.bbox_y + issue1.bbox_height,
                   issue2.bbox_y + issue2.bbox_height)
    IN  [issue1 EXCEPT
            !.bbox_x = x1,
            !.bbox_y = y1,
            !.bbox_width = x2 - x1,
            !.bbox_height = y2 - y1,
            !.ocr_text = Strip(issue1.ocr_text \o <<" ">> \o issue2.ocr_text),
            !.detected_problems =
                SetToSeq({issue1.detected_problems[k] :
                              k \in 1..Len(issue1.detected_problems)}
                         \cup {issue2.detected_problems[k] :
                                   k \in 1..Len(issue2.detected_problems)}),
            !.confidence = MinConfidence(issue1.confidence, issue2.confidence)]

\* the mutant: an issue is merged into the accumulator but later issues are
\* still compared with the bbox the accumulator had before
RECURSIVE MergeInner_StaleBbox(_, _, _, _, _)
MergeInner_StaleBbox(issues, current, j, used, threshold) ==
    IF j > Len(issues) THEN <<current, used>>
    ELSE IF j \in used
         THEN MergeInner_StaleBbox(issues, current, j + 1, used, threshold)
    ELSE IF bboxes_nearby(current, issues[j], threshold)
         THEN MergeInner_StaleBbox(issues,
                  [merge_two_issues(current, issues[j]) EXCEPT
                      !.bbox_x = current.bbox_x,
                      !.bbox_y = current.bbox_y,
                      !.bbox_width = current.bbox_width,
                      !.bbox_height = current.bbox_height],
                  j + 1, used \cup {j}, threshold)
         ELSE MergeInner_StaleBbox(issues, current, j + 1, used, threshold)

\* the inner loop over issues[i + 1:]: <<current, used>> after index j onwards
RECURSIVE MergeInner(_, _, _, _, _)
MergeInner(issues, current, j, used, threshold) ==
    IF j > Len(issues) THEN <<current, used>>
    ELSE IF j \in used THEN MergeInner(issues, current, j + 1, used, threshold)
    ELSE IF bboxes_nearby(current, issues[j], threshold)
         THEN MergeInner(issues, merge_two_issues(current, issues[j]), j + 1,
                         used \cup {j}, threshold)
         ELSE MergeInner(issues, current, j + 1, used, threshold)

\* the outer loop from index i onwards
RECURSIVE MergeOuter(_, _, _, _)
MergeOuter(issues, i, used, threshold) ==
    IF i > Len(issues) THEN << >>
    ELSE IF i \in used THEN MergeOuter(issues, i + 1, used, threshold)
    ELSE LET r == MergeInner(issues, issues[i], i + 1, used, threshold)
         IN  <<r[1]>> \o MergeOuter(issues, i + 1, r[2] \cup {i}, threshold)

merge_nearby_issues(issues, threshold) ==
    IF Len(issues) <= 1 THEN issues
    ELSE MergeOuter(issues, 1, {}, threshold)

\* the default of merge_nearby_issues's threshold parameter
merge_threshold == 20

(***************************************************************************)
(* Images, and pdf_service's ROI extraction and patch compositing          *)
(***************************************************************************)
\* settings.roi_margin, settings.max_roi_width, settings.max_roi_height
roi_margin == 40
max_roi_width == 500
max_roi_height == 500

Coords(w, h) == (0..(w - 1)) \X (0..(h - 1))

\* img.crop((x1, y1, x2, y2)) for a box inside the image
Crop(img, x1, y1, x2, y2) ==
    [width |-> x2 - x1,
     height |-> y2 - y1,
     pix |-> [c \in Coords(x2 - x1, y2 - y1) |-> img.pix[<<x1 + c[1], y1 + c[2]>>]]]

\* the crop box of extract_roi_with_margin: <<x1, y1, x2, y2>>
RoiBox(img, bbox, margin) ==
    LET x1 == Max2(0, bbox.x - margin)
        y1 == Max2(0, bbox.y - margin)
        x2 == Min2(img.width, bbox.x + bbox.width + margin)
        y2 == Min2(img.height, bbox.y + bbox.height + margin)
        ex == IF x2 - x1 > max_roi_width THEN (x2 - x1) - max_roi_width ELSE 0
        ey == IF y2 - y1 > max_roi_height THEN (y2 - y1) - max_roi_height ELSE 0
    IN  <<x1 + (ex \div 2), y1 + (ey \div 2), x2 - (ex \div 2), y2 - (ey \div 2)>>

\* (roi image, adjusted_bbox) of extract_roi_with_margin, the page image given
extract_roi_with_margin(img, bbox, margin) ==
    LET b == RoiBox(img, bbox, margin) IN
    [roi |-> Crop(img, b[1], b[2], b[3], b[4]),
     adjusted_bbox |->
        [x |-> b[1], y |-> b[2], width |-> b[3] - b[1], height |-> b[4] - b[2],
         original_bbox_offset |-> [x |-> bbox.x - b[1], y |-> bbox.y - b[2]]]]

\* page_img.paste(patch_img, (x, y), patch_img) for an opaque patch: the part of
\* the patch that falls on the page replaces the page's pixels
PasteAt(page_img, patch_img, x, y) ==
    [page_img EXCEPT !.pix =
        [c \in Coords(page_img.width, page_img.height) |->
            IF /\ c[1] >= x /\ c[1] < x + patch_img.width
               /\ c[2] >= y /\ c[2] < y + patch_img.height
            THEN patch_img.pix[<<c[1] - x, c[2] - y>>]
            ELSE page_img.pix[c]]]


\* apply_patch_to_page, the page image given
apply_patch_to_page(page_img, patch_img, patch_bbox) ==
    PasteAt(page_img, patch_img, patch_bbox.x, patch_bbox.y)

(***************************************************************************)
(* correction_service: rendering                                           *)
(*                                                                         *)
(* A pixel is [ink, tone]: a pixel of the scanned page has no ink and the  *)
(* tone the rasterizer gave it; a pixel a renderer wrote carries the text  *)
(* rendered (tone 0 by text overlay, tone 1 by the AI editor).             *)
(***************************************************************************)
OverlayPixel(text) == [ink |-> text, tone |-> 0]
AiPixel(text) == [ink |-> text, tone |-> 1]

\* draw.rectangle([x, y, x + width, y + height], fill) covers both end points
InFilledRect(c, bbox_in_roi) ==
    /\ c[1] >= bbox_in_roi.x /\ c[1] <= bbox_in_roi.x + bbox_in_roi.width
    /\ c[2] >= bbox_in_roi.y /\ c[2] <= bbox_in_roi.y + bbox_in_roi.height

\* apply_text_overlay: the filled rectangle and the text drawn inside it
apply_text_overlay(roi, bbox_in_roi, corrected_text) ==
    [roi EXCEPT !.pix =
        [c \in Coords(roi.width, roi.height) |->
            IF InFilledRect(c, bbox_in_roi) THEN OverlayPixel(corrected_text)
            ELSE roi.pix[c]]]

\* the image the AI editor returns when it returns one: the ROI with the text
\* of the target rectangle replaced
AiEditedImage(roi, bbox_in_roi, corrected_text) ==
    [roi EXCEPT !.pix =
        [c \in Coords(roi.width, roi.height) |->
            IF InFilledRect(c, bbox_in_roi) THEN AiPixel(corrected_text)
            ELSE roi.pix[c]]]

\* bbox_in_roi of apply_correction
BboxInRoi(adjusted_bbox, issue_bbox) ==
    [x |-> adjusted_bbox.original_bbox_offset.x,
     y |-> adjusted_bbox.original_bbox_offset.y,
     width |-> issue_bbox.width,
     height |-> issue_bbox.height]

\* the mutant: when the editor gives no image the ROI is kept as it is
RenderCorrection_NoFallback(roi, bbox_in_roi, corrected_text, method, ai) ==
    IF method = "nano_banana"
    THEN IF ai = "image"
         THEN [img |-> AiEditedImage(roi, bbox_in_roi, corrected_text),
               status |-> "nano_banana_success"]
         ELSE [img |-> roi, status |-> "nano_banana_failed"]
    ELSE [img |-> apply_text_overlay(roi, bbox_in_roi, corrected_text),
          status |-> "text_overlay_success"]

\* (corrected_bytes, status) of apply_correction's rendering step; ai is the
\* outcome of the external editor: "image" or "none"
RenderCorrection(roi, bbox_in_roi, corrected_text, method, ai) ==
    IF method = "nano_banana"
    THEN IF ai = "image"
         THEN [img |-> AiEditedImage(roi, bbox_in_roi, corrected_text),
               status |-> "nano_banana_success"]
         ELSE [img |-> apply_text_overlay(roi, bbox_in_roi, corrected_text),
               status |-> "fallback_to_text_overlay"]
    ELSE [img |-> apply_text_overlay(roi, bbox_in_roi, corrected_text),
          status |-> "text_overlay_success"]


(***************************************************************************)
(* State                                                                   *)
(***************************************************************************)
VARIABLES
    adopt_call,         \* the arguments of a call of evaluate_auto_adopt
    adopt_result,       \* None, or Some(its result)
    det_blocks,         \* the OCR blocks given to detect_issues
    det_result,         \* None, or Some(the issues it returned)
    page,               \* storage: the image stored at page.image_path
    page0,              \* the page image before the first correction request
    patches,            \* storage: path |-> image, for the patch files saved
    page_row,           \* database: Some(the Page row), None once deleted
    issues,             \* database: issue id |-> Issue row
    corrections,        \* database: correction id |-> Correction row
    next_issue_id,      \* the next fresh issue id (ids are UUIDs, never reused)
    next_correction_id, \* the next fresh correction id
    db_cascade,         \* whether the database enforces ON DELETE CASCADE
    req                 \* request id |-> the position and the local variables of
                        \* the apply or undo it is executing

pureVars == <<adopt_call, adopt_result, det_blocks, det_result>>
storeVars == <<page, page0, patches>>
dbVars == <<page_row, issues, corrections, next_issue_id, next_correction_id,
            db_cascade>>
vars == <<pureVars, storeVars, dbVars, req>>

(***************************************************************************)
(* Bounds of the model                                                     *)
(***************************************************************************)
PageW == 84          \* width of a page wide enough for two disjoint ROIs
SmallPageW == 8      \* width of the page of the request lifecycle
PageH == 2           \* height of the page image, in pixels
MaxIssueId == 2      \* issue rows ever created
MaxCorrections == 2  \* correction rows ever created for one issue under study
LifecycleCorrections == 1 \* correction rows ever created in the page lifecycle
MaxBatch == 2        \* issue ids in one batch request
MaxCands == 2        \* candidates in a list given to evaluate_auto_adopt
MaxFillerBlocks == 20 \* repeated leading blocks of an OCR result
MaxTailBlocks == 1   \* free trailing blocks of an OCR result
NumRequests == 2     \* apply or undo executions in flight at once

(***************************************************************************)
(* Storage (backend.storage): get(path) and save_bytes(bytes, path)        *)
(***************************************************************************)
BeforePath(issue_id) == <<issue_id, "before">>
AfterPath(issue_id) == <<issue_id, "after">>

\* the mutant: a store that keeps nothing of what it is given
SaveBytes_Drops(files, path, bytes) == files

\* storage().save_bytes(bytes, path)
SaveBytes(files, path, bytes) ==
    [q \in DOMAIN files \cup {path} |-> IF q = path THEN bytes ELSE files[q]]

\* storage().get(path) finds a file
Stored(files, path) == path \in DOMAIN files

(***************************************************************************)
(* correction_service.apply_correction and undo_correction, as functions   *)
(* of the storage they read and write                                      *)
(***************************************************************************)
IssueBbox(issue) ==
    [x |-> issue.bbox_x, y |-> issue.bbox_y,
     width |-> issue.bbox_width, height |-> issue.bbox_height]

\* the storage after apply_correction: [page, patches, status, before, after]
apply_correction(pg, files, issue_bbox, corrected_text, method, issue_id, ai) ==
    LET ex == extract_roi_with_margin(pg, issue_bbox, roi_margin)
        files1 == SaveBytes(files, BeforePath(issue_id), ex.roi)
        r == RenderCorrection(ex.roi, BboxInRoi(ex.adjusted_bbox, issue_bbox),
                              corrected_text, method, ai)
        files2 == SaveBytes(files1, AfterPath(issue_id), r.img)
        updated == apply_patch_to_page(pg, r.img,
                       [x |-> ex.adjusted_bbox.x, y |-> ex.adjusted_bbox.y])
    IN  [page |-> updated, patches |-> files2, status |-> r.status,
         before_path |-> BeforePath(issue_id), after_path |-> AfterPath(issue_id)]

\* the result of undo_correction: [ok, page]
undo_correction(pg, files, patch_before_path, patch_bbox) ==
    IF ~Stored(files, patch_before_path) THEN [ok |-> FALSE, page |-> pg]
    ELSE [ok |-> TRUE,
          page |-> apply_patch_to_page(pg, files[patch_before_path], patch_bbox)]

\* what can go wrong in the storage during an undo: the before patch is not
\* there, a read raises, the write of the page raises
UndoFaults == {"patch_missing", "read_error", "write_error"}

\* storage().save_bytes raising: the stored file is as it was
SaveBytesRaises(stored) == stored

\* the mutant: the page is written before the failure is noticed
undo_correction_under_WritesFirst(pg, files, patch_before_path, patch_bbox, fault) ==
    IF ~Stored(files, patch_before_path) \/ fault = "read_error"
    THEN [ok |-> FALSE, page |-> apply_patch_to_page(pg, pg, patch_bbox)]
    ELSE [ok |-> fault # "write_error",
          page |-> apply_patch_to_page(pg, files[patch_before_path], patch_bbox)]

\* undo_correction when the storage may fail: every exception of the try block
\* is caught and False returned
undo_correction_under(pg, files, patch_before_path, patch_bbox, fault) ==
    IF ~Stored(files, patch_before_path) \/ fault = "read_error"
    THEN [ok |-> FALSE, page |-> pg]
    ELSE IF fault = "write_error"
    THEN [ok |-> FALSE, page |-> SaveBytesRaises(pg)]
    ELSE undo_correction(pg, files, patch_before_path, patch_bbox)


(***************************************************************************)
(* Values of the variables a specification does not use                    *)
(***************************************************************************)
EmptyImage == [width |-> 0, height |-> 0, pix |-> << >>]

IdlePure ==
    /\ adopt_call = None /\ adopt_result = None
    /\ det_blocks = << >> /\ det_result = None

IdleStore == page = EmptyImage /\ page0 = EmptyImage /\ patches = << >>

IdleDb ==
    /\ page_row = Some([ocr_status |-> "pending", ocr_result |-> None])
    /\ issues = << >> /\ corrections = << >>
    /\ next_issue_id = 1 /\ next_correction_id = 1
    /\ db_cascade = FALSE

(***************************************************************************)
(* SpecAdopt: evaluate_auto_adopt on bounded inputs                        *)
(***************************************************************************)
\* original OCR texts: garbled, plain, sensitive (number, product code, yen)
AdoptOcrTexts ==
    {<<"<25CB>", "<25A1>", "<TE>", "<SU>", "<TO>">>,
     <<"X">>,
     <<"a", "b", "?", "d">>,
     <<"a", "b", "c", "d">>,
     <<"1", "2", "3", "4">>,
     <<"A", "B", "1">>,
     <<"5", "<EN>">>,
     << >>}

\* texts of the top candidate: katakana, kanji and capitalized words, plain and
\* garbled texts, and one text for each sensitive pattern
AdoptTopTexts ==
    {<<"<TE>", "<SU>", "<TO>">>,
     <<"<YAMA>", "<TA>">>,
     <<"T", "o", "k", "y", "o">>,
     <<"Y">>,
     <<"a", "b", "c", "d">>,
     <<"a", "b", "c", "d", "e">>,
     <<"a", "b", "?", "d">>,
     <<"t", "e", "s", "t">>,
     <<"2", "0", "2", "4">>,
     <<"h", "t", "t", "p", ":", "/", "/", "a">>,
     <<"w", "w", "w", ".", "a">>,
     <<"a", "@", "b", ".", "c">>,
     <<"2", "0", "2", "4", "-", "1", "-", "5">>,
     <<"1", ",", "0", "<EN>">>,
     <<"$", "5">>,
     <<"A", "B", "1">>,
     <<"1", "-", "2", "-", "3">>}

\* confidences around the thresholds 0.80, 0.85 and 0.90, and the gap 0.15
AdoptConfidences == {50, 60, 70, 75, 80, 81, 85, 86, 90, 91, 95}

\* confidences of the candidates after the first
AdoptRivalConfidences == {60, 80, 90}

AdoptOcrConfidences == {30, 50, 95}

\* candidate lists: a free top candidate, then candidates on one fixed text
AdoptCandidateLists ==
    UNION {
        {<<[text |-> t, confidence |-> c]>> \o rest :
            t \in AdoptTopTexts, c \in AdoptConfidences,
            rest \in [1..(n - 1) -> {[text |-> <<"Z">>, confidence |-> d] :
                                         d \in AdoptRivalConfidences}]}
        : n \in 1..MaxCands}
    \cup {<< >>}

InitAdopt ==
    /\ adopt_call \in
          {Some([ocr_text |-> t, candidates |-> cs, ocr_confidence |-> oc]) :
              t \in AdoptOcrTexts, cs \in AdoptCandidateLists,
              oc \in AdoptOcrConfidences}
    /\ adopt_result = None
    /\ det_blocks = << >> /\ det_result = None
    /\ IdleStore /\ IdleDb /\ req = << >>

EvaluateAutoAdopt ==
    /\ adopt_call # None /\ adopt_result = None
    /\ adopt_result' = Some(evaluate_auto_adopt(adopt_call[1].ocr_text,
                                                adopt_call[1].candidates,
                                                adopt_call[1].ocr_confidence))
    /\ UNCHANGED <<adopt_call, det_blocks, det_result, storeVars, dbVars, req>>

NextAdopt == EvaluateAutoAdopt

SpecAdopt == InitAdopt /\ [][NextAdopt]_vars

\* the call whose result adopt_result holds
AdoptDone == adopt_call # None /\ adopt_result # None
AdoptText == adopt_call[1].ocr_text
AdoptCands == adopt_call[1].candidates
AdoptTop == adopt_call[1].candidates[1]

(* C3: whenever the original OCR text or the top candidate's text matches a
   sensitive pattern, evaluate_auto_adopt returns (False, None), whatever the
   confidences of the candidates. *)
C3_SensitiveNeverAdopted ==
    (/\ AdoptDone
     /\ \/ contains_sensitive_pattern(AdoptText)
        \/ Len(AdoptCands) > 0 /\ contains_sensitive_pattern(AdoptTop.text))
    => adopt_result[1] = <<FALSE, None>>

\* a sensitive top candidate with confidence 0.95 and no rival was evaluated
C3_Witness ==
    /\ AdoptDone
    /\ Len(AdoptCands) = 1
    /\ AdoptTop.text = <<"$", "5">> /\ AdoptTop.confidence = 95
    /\ ~contains_sensitive_pattern(AdoptText)
    /\ adopt_result[1] = <<FALSE, None>>

\* the case C4 is about: garbled original, one candidate without garbled
\* glyphs and with confidence above 0.85, neither text sensitive
C4_Case ==
    /\ AdoptDone
    /\ Len(AdoptCands) = 1
    /\ HasGarbled(AdoptText) /\ ~HasGarbled(AdoptTop.text)
    /\ AdoptTop.confidence > 85
    /\ ~contains_sensitive_pattern(AdoptText)
    /\ ~contains_sensitive_pattern(AdoptTop.text)

(* C4 as stated: garbled text removed with confidence above 0.85 by a single
   candidate, neither text sensitive, is auto-adopted: the result is (True, 0). *)
C4_GarbledRemovedAdopted_Original ==
    C4_Case => adopt_result[1] = <<TRUE, Some(0)>>

(* C4 amended: in that case the result is (True, 0) provided the candidate does
   not look like a proper noun; when it does (as the katakana word of the
   example does) the result is (False, None). *)
C4_GarbledRemovedAdopted ==
    C4_Case =>
        adopt_result[1] = IF looks_like_proper_noun(AdoptTop.text)
                          THEN <<FALSE, None>>
                          ELSE <<TRUE, Some(0)>>

\* the garbled original with a plain candidate at 0.86 was adopted
C4_Witness ==
    /\ C4_Case
    /\ AdoptTop.text = <<"t", "e", "s", "t">> /\ AdoptTop.confidence = 86
    /\ adopt_result[1] = <<TRUE, Some(0)>>

(* C5: with at least two candidates whose rank-1 confidence minus rank-2
   confidence is below 0.15, evaluate_auto_adopt returns (False, None), however
   high the rank-1 confidence is. *)
C5_AmbiguousNeverAdopted ==
    (/\ AdoptDone
     /\ Len(AdoptCands) >= 2
     /\ AdoptCands[1].confidence - AdoptCands[2].confidence < 15)
    => adopt_result[1] = <<FALSE, None>>

\* a plain top candidate at 0.95 with a rival at 0.90 was evaluated
C5_Witness ==
    /\ AdoptDone
    /\ Len(AdoptCands) >= 2
    /\ AdoptText = <<"X">> /\ AdoptTop.text = <<"Y">>
    /\ AdoptCands[1].confidence = 95 /\ AdoptCands[2].confidence = 90
    /\ adopt_result[1] = <<FALSE, None>>


(***************************************************************************)
(* SpecDetect: detect_issues on bounded OCR results                        *)
(***************************************************************************)
\* a block that produces an issue (low confidence) and one that produces none
FillerBlocks ==
    {[text |-> <<"a", "b", "c", "d", "e", "f">>, confidence |-> 70,
      bbox |-> [x |-> 200, y |-> 0, width |-> 10, height |-> 10]],
     [text |-> <<"a", "b", "c", "d", "e", "f">>, confidence |-> 95,
      bbox |-> [x |-> 200, y |-> 0, width |-> 10, height |-> 10]]}

\* texts of garbled glyphs only, mixed texts, a sensitive and a plain text
DetectTexts ==
    {<<"<25A1>", "<25A1>">>,
     <<"<25A0>">>,
     <<"?", "<FFFD>", "?">>,
     <<"a", "<25A1>">>,
     <<"1", "2", "3", "4", "<25A1>">>,
     <<"a", "b">>}

DetectConfidences == {40, 50, 55, 90}

\* a small box, a box that check 4 calls large, and an empty box
DetectBboxes ==
    {[x |-> 0, y |-> 0, width |-> 10, height |-> 10],
     [x |-> 0, y |-> 50, width |-> 101, height |-> 31],
     [x |-> 0, y |-> 90, width |-> 0, height |-> 0]}

DetectBlocks ==
    {[text |-> t, confidence |-> c, bbox |-> b] :
        t \in DetectTexts, c \in DetectConfidences, b \in DetectBboxes}

Rep(block, n) == [k \in 1..n |-> block]

\* numbers of leading blocks: none, one, and those around the issue cap
FillerCounts ==
    {0, 1, MaxFillerBlocks - 2, MaxFillerBlocks - 1, MaxFillerBlocks}

InitDetect ==
    /\ det_blocks \in
          {Rep(f, n) \o tail :
              f \in FillerBlocks, n \in FillerCounts,
              tail \in UNION {[1..m -> DetectBlocks] : m \in 0..MaxTailBlocks}}
    /\ det_result = None
    /\ adopt_call = None /\ adopt_result = None
    /\ IdleStore /\ IdleDb /\ req = << >>

DetectIssues ==
    /\ det_result = None
    /\ det_result' = Some(detect_issues(det_blocks))
    /\ UNCHANGED <<adopt_call, adopt_result, det_blocks, storeVars, dbVars, req>>

NextDetect == DetectIssues

SpecDetect == InitDetect /\ [][NextDetect]_vars

\* the block's text consists only of garbled glyphs
OnlyGarbled(text) == Len(text) > 0 /\ CharSet(text) \subseteq GARBLED_CHARS

\* block i is one that C6 speaks of
C6_Block(i) ==
    /\ OnlyGarbled(det_blocks[i].text)
    /\ det_blocks[i].confidence > 50
    /\ ~contains_sensitive_pattern(det_blocks[i].text)

\* the returned list holds an auto-correctable issue of block i
C6_Emitted(i) ==
    \E k \in 1..Len(det_result[1]) :
        /\ det_result[1][k].ocr_text = det_blocks[i].text
        /\ det_result[1][k].confidence = Some(det_blocks[i].confidence)
        /\ IssueBbox(det_result[1][k]) = det_blocks[i].bbox
        /\ det_result[1][k].auto_correctable

\* number of issue-producing blocks up to and including block i
IssueRank(i) == Cardinality({j \in 1..i : ProducesIssue(det_blocks[j])})

(* C6 as stated: for every OCR block of only garbled glyphs with confidence
   above 0.5 and no sensitive pattern, detect_issues emits an issue of that
   block with auto_correctable true, whatever the bbox size. *)
C6_GarbledOnlyAutoCorrectable_Original ==
    det_result # None =>
        \A i \in 1..Len(det_blocks) : C6_Block(i) => C6_Emitted(i)

(* C6 amended: such a block gets an issue with auto_correctable true provided
   it is among the first max_issues_per_page issue-producing blocks of the OCR
   result; the issues of later blocks are cut from the returned list. *)
C6_GarbledOnlyAutoCorrectable ==
    det_result # None =>
        \A i \in 1..Len(det_blocks) :
            (C6_Block(i) /\ IssueRank(i) <= max_issues_per_page)
                => C6_Emitted(i)

\* a block of garbled glyphs in a large box, confidence 0.55, came after some
\* issue-producing blocks and its issue, retagged missing, is auto-correctable
C6_Witness ==
    /\ det_result # None
    /\ \E i \in 1..Len(det_blocks) :
          /\ C6_Block(i) /\ det_blocks[i].confidence = 55
          /\ det_blocks[i].bbox.width > 100
          /\ IssueRank(i) > 1 /\ IssueRank(i) <= max_issues_per_page
          /\ C6_Emitted(i)
          /\ det_result[1][IssueRank(i)].issue_type = "missing"
          /\ det_result[1][IssueRank(i)].auto_correctable


(***************************************************************************)
(* The database rows and the inputs of the handlers                        *)
(***************************************************************************)
Statuses == {"detected", "reviewing", "corrected", "skipped"}

\* the Issue row made of an issue dict: the columns detection does not give
\* keep their default
IssueRow(data) ==
    [bbox_x |-> data.bbox_x, bbox_y |-> data.bbox_y,
     bbox_width |-> data.bbox_width, bbox_height |-> data.bbox_height,
     issue_type |-> data.issue_type, confidence |-> data.confidence,
     ocr_text |-> data.ocr_text, detected_problems |-> data.detected_problems,
     status |-> data.status, auto_correctable |-> data.auto_correctable,
     candidates |-> None]

\* db.add of each issue of a list, under fresh ids from first_id on
InsertIssues(rows, new, first_id) ==
    [i \in DOMAIN rows \cup (first_id..(first_id + Len(new) - 1)) |->
        IF i \in DOMAIN rows THEN rows[i] ELSE IssueRow(new[i - first_id + 1])]

\* the page as the rasterizer stores it: every pixel has its own tone
GradientPage(w, h) ==
    [width |-> w, height |-> h,
     pix |-> [c \in Coords(w, h) |-> [ink |-> << >>, tone |-> 2 + c[1] + w * c[2]]]]

\* a page of one tone
UniformPage(w, h) ==
    [width |-> w, height |-> h,
     pix |-> [c \in Coords(w, h) |-> [ink |-> << >>, tone |-> 2]]]

\* OCR blocks of the page: a garbled word, and a number read with low
\* confidence right next to it
GarbledBlock ==
    [text |-> <<"<25A1>", "<25A1>">>, confidence |-> 90,
     bbox |-> [x |-> 1, y |-> 0, width |-> 2, height |-> 1]]

NumberBlock ==
    [text |-> <<"1", "2", "3", "4">>, confidence |-> 70,
     bbox |-> [x |-> 5, y |-> 0, width |-> 3, height |-> 1]]

\* what ocr_page may return for the page
OcrResults == {<<GarbledBlock>>, <<GarbledBlock, NumberBlock>>}

\* what GeminiService.generate_candidates may return: a sorted list parsed
\* from the response, or the fallback candidate on an API error
GeminiOutputs(ocr_text) ==
    {<<[text |-> <<"a", "b">>, confidence |-> 95],
       [text |-> <<"c", "d">>, confidence |-> 60]>>,
     <<[text |-> ocr_text, confidence |-> 50]>>}

\* texts a client may send as selected_text or corrected_text
RequestTexts == {<<"a", "b">>}

\* method strings a client may send
RequestMethods == {"text_overlay", "nano_banana", "other"}

\* the method of the requests of the page lifecycle
LifecycleMethods == {"text_overlay"}

\* what the AI editor does with a ROI: it returns an image or none; it is
\* called for the method nano_banana only
AiOutcomes(method) ==
    IF method = "nano_banana" THEN {"image", "none"} ELSE {"none"}

\* Correction(...) as the three writers build it, without the columns no
\* handler reads back (original_text, candidates, selected_candidate_index and
\* the timestamps)
CorrectionRow(issue_id, method, corrected_text, applied_paths) ==
    [issue_id |-> issue_id,
     correction_method |-> method,
     corrected_text |-> corrected_text,
     patch_before_path |-> applied_paths.before_path,
     patch_after_path |-> applied_paths.after_path,
     applied |-> TRUE]

\* db.add(correction) under a fresh id
InsertCorrection(rows, id, row) ==
    [i \in DOMAIN rows \cup {id} |-> IF i = id THEN row ELSE rows[i]]


(***************************************************************************)
(* The handlers, each run from its first statement to its commit.  A       *)
(* request the handler rejects (404, 400) changes nothing and is not a     *)
(* step.                                                                   *)
(***************************************************************************)
\* worker/tasks/ocr_task.py process_page_ocr: the OCR result is saved and the
\* issues detect_issues returns are added to the issues the page already has
ProcessPageOcr ==
    \E ocr_result \in OcrResults :
        /\ page_row # None
        /\ \E found \in {detect_issues(ocr_result)} :
           /\ next_issue_id + Len(found) - 1 <= MaxIssueId
           /\ page_row' = Some([ocr_status |-> "completed",
                                ocr_result |-> Some(ocr_result)])
           /\ issues' = InsertIssues(issues, found, next_issue_id)
           /\ next_issue_id' = next_issue_id + Len(found)
        /\ UNCHANGED <<corrections, next_correction_id, db_cascade>>
        /\ UNCHANGED <<pureVars, storeVars, req>>

\* process_page_ocr when ocr_page raises
ProcessPageOcrFails ==
    /\ page_row # None
    /\ page_row' = Some([page_row[1] EXCEPT !.ocr_status = "failed"])
    /\ UNCHANGED <<issues, corrections, next_issue_id, next_correction_id,
                   db_cascade>>
    /\ UNCHANGED <<pureVars, storeVars, req>>

\* worker/tasks/detection_task.py detect_page_issues: the page's issues are
\* deleted in bulk (the database removes their corrections when it enforces
\* the foreign key's ON DELETE CASCADE), then detection and merging run
DetectPageIssues ==
    /\ page_row # None
    /\ page_row[1].ocr_result # None
    /\ \E found \in {merge_nearby_issues(
                          detect_issues(page_row[1].ocr_result[1]),
                          merge_threshold)} :
       /\ next_issue_id + Len(found) - 1 <= MaxIssueId
       /\ issues' = InsertIssues(<< >>, found, next_issue_id)
       /\ next_issue_id' = next_issue_id + Len(found)
    /\ corrections' = IF db_cascade THEN << >> ELSE corrections
    /\ UNCHANGED <<page_row, next_correction_id, db_cascade>>
    /\ UNCHANGED <<pureVars, storeVars, req>>

\* backend/api/issues.py create_issue: an issue drawn by hand
CreateIssue ==
    \E bbox \in {[x |-> 2, y |-> 1, width |-> 2, height |-> 1]},
       ocr_text \in {<< >>} :
        /\ page_row # None
        /\ next_issue_id <= MaxIssueId
        /\ issues' = InsertIssues(issues,
                        <<[bbox_x |-> bbox.x, bbox_y |-> bbox.y,
                           bbox_width |-> bbox.width, bbox_height |-> bbox.height,
                           issue_type |-> "manual", confidence |-> None,
                           ocr_text |-> ocr_text, detected_problems |-> << >>,
                           status |-> "detected", auto_correctable |-> FALSE]>>,
                        next_issue_id)
        /\ next_issue_id' = next_issue_id + 1
        /\ UNCHANGED <<page_row, corrections, next_correction_id, db_cascade>>
        /\ UNCHANGED <<pureVars, storeVars, req>>

\* issue.confidence or 0.0
ConfidenceOrZero(issue) == IF issue.confidence = None THEN 0 ELSE issue.confidence[1]

\* issue.candidates is a non-empty list
HasCandidates(issue) == issue.candidates # None /\ Len(issue.candidates[1]) > 0

\* backend/api/issues.py generate_candidates; more are further lists the
\* generator may return
api_generate_candidates(more) ==
    \E issue_id \in 1..MaxIssueId, force_regenerate \in BOOLEAN :
        /\ issue_id \in DOMAIN issues
        /\ ~(HasCandidates(issues[issue_id]) /\ ~force_regenerate)
        /\ \E candidates \in GeminiOutputs(issues[issue_id].ocr_text) \cup more :
           \E issue \in {issues[issue_id]} :
           \E adopt \in {evaluate_auto_adopt(issue.ocr_text, candidates,
                                              ConfidenceOrZero(issue))} :
              issues' = [issues EXCEPT ![issue_id] =
                            [issue EXCEPT
                                !.candidates = Some(candidates),
                                !.auto_correctable = adopt[1],
                                !.status = IF adopt[1] THEN "reviewing"
                                           ELSE issue.status]]
        /\ UNCHANGED <<page_row, corrections, next_issue_id, next_correction_id,
                       db_cascade>>
        /\ UNCHANGED <<pureVars, storeVars, req>>

GenerateCandidatesApi == api_generate_candidates({})

\* worker/tasks/correction_task.py generate_issue_candidates, when the
\* generator returns a list
generate_issue_candidates(more) ==
    \E issue_id \in 1..MaxIssueId :
        /\ issue_id \in DOMAIN issues
        /\ \E candidates \in GeminiOutputs(issues[issue_id].ocr_text) \cup more :
           \E issue \in {issues[issue_id]} :
           \E adopt \in {evaluate_auto_adopt(issue.ocr_text, candidates,
                                              ConfidenceOrZero(issue))} :
              issues' = [issues EXCEPT ![issue_id] =
                            [issue EXCEPT
                                !.candidates = Some(candidates),
                                !.auto_correctable = adopt[1],
                                !.status = "reviewing"]]
        /\ UNCHANGED <<page_row, corrections, next_issue_id, next_correction_id,
                       db_cascade>>
        /\ UNCHANGED <<pureVars, storeVars, req>>

GenerateIssueCandidatesTask == generate_issue_candidates({})

\* backend/api/issues.py update_issue_status
UpdateIssueStatus ==
    \E issue_id \in 1..MaxIssueId, status \in Statuses :
        /\ issue_id \in DOMAIN issues
        /\ issues' = [issues EXCEPT ![issue_id].status = status]
        /\ UNCHANGED <<page_row, corrections, next_issue_id, next_correction_id,
                       db_cascade>>
        /\ UNCHANGED <<pureVars, storeVars, req>>


\* the text create_correction applies: selected_text, else the text of the
\* candidate at selected_candidate_index; None when the request is rejected
CorrectedTextOf(issue, selected_text, selected_index) ==
    IF selected_text # None THEN selected_text
    ELSE IF selected_index = None THEN None
    ELSE IF /\ HasCandidates(issue)
            /\ 0 <= selected_index[1]
            /\ selected_index[1] < Len(issue.candidates[1])
         THEN Some(issue.candidates[1][selected_index[1] + 1].text)
         ELSE None

\* backend/api/corrections.py create_correction, for requests with a method
\* of the given set, while fewer than max_rows correction rows exist
create_correction(methods, max_rows) ==
    \E issue_id \in 1..MaxIssueId,
       selected_text \in {None} \cup {Some(t) : t \in RequestTexts},
       selected_index \in {None, Some(0), Some(1)},
       method \in methods :
      \E ai \in AiOutcomes(method) :
        /\ issue_id \in DOMAIN issues
        /\ method \in {"text_overlay", "nano_banana"}
        /\ next_correction_id <= max_rows
        /\ \E issue \in {issues[issue_id]} :
           \E chosen \in {CorrectedTextOf(issue, selected_text, selected_index)} :
           \E corrected_text \in {chosen[k] : k \in DOMAIN chosen} :
           \E applied \in {apply_correction(page, patches, IssueBbox(issue),
                                             corrected_text, method, issue_id, ai)} :
               /\ page' = applied.page
               /\ patches' = applied.patches
               /\ corrections' =
                      InsertCorrection(corrections, next_correction_id,
                          CorrectionRow(issue_id, method, corrected_text, applied))
               /\ issues' = [issues EXCEPT ![issue_id].status = "corrected"]
        /\ next_correction_id' = next_correction_id + 1
        /\ UNCHANGED <<page0, page_row, next_issue_id, db_cascade>>
        /\ UNCHANGED <<pureVars, req>>

\* backend/api/corrections.py undo_correction_endpoint: the before patch is
\* pasted at the bbox of the issue
UndoCorrectionEndpoint ==
    \E correction_id \in 1..MaxCorrections :
        /\ correction_id \in DOMAIN corrections
        /\ corrections[correction_id].applied
        /\ corrections[correction_id].issue_id \in DOMAIN issues
        /\ \E correction \in {corrections[correction_id]} :
           \E issue \in {issues[correction.issue_id]} :
           \E undone \in {undo_correction(page, patches,
                                           correction.patch_before_path,
                                           IssueBbox(issue))} :
               /\ undone.ok
               /\ page' = undone.page
               /\ corrections' = [corrections EXCEPT ![correction_id].applied = FALSE]
               /\ issues' = [issues EXCEPT ![correction.issue_id].status = "reviewing"]
        /\ UNCHANGED <<page0, patches, page_row, next_issue_id,
                       next_correction_id, db_cascade>>
        /\ UNCHANGED <<pureVars, req>>

\* the storage without the file at path
Lost(files, path) == [q \in DOMAIN files \ {path} |-> files[q]]

\* undo_correction_endpoint when undo_correction returns False: the response
\* is the HTTPException raised before the records are updated
UndoCorrectionEndpointFails ==
    \E correction_id \in 1..MaxCorrections, fault \in UndoFaults :
        /\ correction_id \in DOMAIN corrections
        /\ corrections[correction_id].applied
        /\ corrections[correction_id].issue_id \in DOMAIN issues
        /\ \E correction \in {corrections[correction_id]} :
           \E issue \in {issues[correction.issue_id]} :
           \E files \in {IF fault = "patch_missing"
                          THEN Lost(patches, correction.patch_before_path)
                          ELSE patches} :
           \E undone \in {undo_correction_under(page, files,
                                                 correction.patch_before_path,
                                                 IssueBbox(issue), fault)} :
               /\ ~undone.ok
               /\ page' = undone.page
               /\ patches' = files
               /\ req' = <<[kind |-> "undo", correction_id |-> correction_id,
                            fault |-> fault, status_code |-> 500,
                            detail |-> "Failed to undo correction"]>>
        /\ UNCHANGED <<page0, pureVars, dbVars>>

\* the state batch_apply_corrections has reached after the ids before position k
RECURSIVE BatchApply(_, _, _, _, _)
BatchApply(st, issue_ids, k, method, ai) ==
    IF k > Len(issue_ids) THEN st
    ELSE LET issue_id == issue_ids[k] IN
         IF \/ issue_id \notin DOMAIN st.issues
            \/ ~st.issues[issue_id].auto_correctable
            \/ ~HasCandidates(st.issues[issue_id])
         THEN BatchApply(st, issue_ids, k + 1, method, ai)
         ELSE LET issue == st.issues[issue_id]
                  corrected_text == issue.candidates[1][1].text
                  applied == apply_correction(st.page, st.patches,
                                 IssueBbox(issue), corrected_text, method,
                                 issue_id, ai)
              IN  BatchApply(
                      [page |-> applied.page,
                       patches |-> applied.patches,
                       corrections |->
                           InsertCorrection(st.corrections, st.next_correction_id,
                               CorrectionRow(issue_id, method, corrected_text,
                                             applied)),
                       issues |-> [st.issues EXCEPT ![issue_id].status = "corrected"],
                       next_correction_id |-> st.next_correction_id + 1],
                      issue_ids, k + 1, method, ai)

\* backend/api/corrections.py batch_apply_corrections
batch_apply_corrections(methods, max_rows) ==
    \E issue_ids \in UNION {[1..n -> 1..MaxIssueId] : n \in 1..MaxBatch},
       method \in methods :
      \E ai \in AiOutcomes(method) :
        \E done \in {BatchApply([page |-> page, patches |-> patches,
                                 corrections |-> corrections, issues |-> issues,
                                 next_correction_id |-> next_correction_id],
                                issue_ids, 1, method, ai)} :
            /\ done.next_correction_id > next_correction_id
            /\ done.next_correction_id <= max_rows + 1
            /\ page' = done.page
            /\ patches' = done.patches
            /\ corrections' = done.corrections
            /\ issues' = done.issues
            /\ next_correction_id' = done.next_correction_id
            /\ UNCHANGED <<page0, page_row, next_issue_id, db_cascade>>
            /\ UNCHANGED <<pureVars, req>>

\* worker/tasks/correction_task.py apply_issue_correction, when apply_correction
\* returns
apply_issue_correction(methods, max_rows) ==
    \E issue_id \in 1..MaxIssueId, corrected_text \in RequestTexts,
       method \in methods :
      \E ai \in AiOutcomes(method) :
        /\ issue_id \in DOMAIN issues
        /\ next_correction_id <= max_rows
        /\ \E issue \in {issues[issue_id]} :
           \E applied \in {apply_correction(page, patches, IssueBbox(issue),
                                             corrected_text, method, issue_id, ai)} :
               /\ page' = applied.page
               /\ patches' = applied.patches
               /\ corrections' =
                      InsertCorrection(corrections, next_correction_id,
                          CorrectionRow(issue_id, method, corrected_text, applied))
               /\ issues' = [issues EXCEPT ![issue_id].status = "corrected"]
        /\ next_correction_id' = next_correction_id + 1
        /\ UNCHANGED <<page0, page_row, next_issue_id, db_cascade>>
        /\ UNCHANGED <<pureVars, req>>

\* backend/api/projects.py delete_project: the ORM cascades the delete to the
\* pages, their issues and the corrections of the issues it has loaded
DeleteProject ==
    /\ page_row # None
    /\ page_row' = None
    /\ issues' = << >>
    /\ corrections' =
          [i \in {j \in DOMAIN corrections :
                     corrections[j].issue_id \notin DOMAIN issues /\ ~db_cascade}
              |-> corrections[i]]
    /\ UNCHANGED <<next_issue_id, next_correction_id, db_cascade>>
    /\ UNCHANGED <<pureVars, storeVars, req>>

\* the requests of the page lifecycle
CreateCorrection == create_correction(LifecycleMethods, LifecycleCorrections)
BatchApplyCorrections ==
    batch_apply_corrections(LifecycleMethods, LifecycleCorrections)
ApplyIssueCorrectionTask ==
    apply_issue_correction(LifecycleMethods, LifecycleCorrections)

Init ==
    /\ IdlePure
    /\ page = GradientPage(SmallPageW, PageH)
    /\ page0 = GradientPage(SmallPageW, PageH)
    /\ patches = << >>
    /\ page_row = Some([ocr_status |-> "pending", ocr_result |-> None])
    /\ issues = << >> /\ corrections = << >>
    /\ next_issue_id = 1 /\ next_correction_id = 1
    /\ db_cascade \in BOOLEAN
    /\ req = << >>

Next ==
    \/ ProcessPageOcr
    \/ ProcessPageOcrFails
    \/ DetectPageIssues
    \/ CreateIssue
    \/ GenerateCandidatesApi
    \/ GenerateIssueCandidatesTask
    \/ UpdateIssueStatus
    \/ CreateCorrection
    \/ UndoCorrectionEndpoint
    \/ BatchApplyCorrections
    \/ ApplyIssueCorrectionTask
    \/ DeleteProject

Spec == Init /\ [][Next]_vars

\* the status edges of an issue
LifecycleEdges ==
    {<<"detected", "reviewing">>, <<"reviewing", "corrected">>,
     <<"detected", "skipped">>, <<"reviewing", "skipped">>}

\* the step withdraws an applied correction of the issue
UndoneInStep(issue_id) ==
    \E c \in DOMAIN corrections \cap DOMAIN corrections' :
        /\ corrections[c].issue_id = issue_id
        /\ corrections[c].applied
        /\ ~corrections'[c].applied

\* the step adds a Correction row for the issue
AppliedInStep(issue_id) ==
    \E c \in DOMAIN corrections' \ DOMAIN corrections :
        corrections'[c].issue_id = issue_id

\* C7: in every step an issue's status stays as it is or moves along
\* detected -> reviewing, reviewing -> corrected, detected -> skipped,
\* reviewing -> skipped, or corrected -> reviewing when the step is an undo.
C7_StatusLifecycle ==
    [][\A id \in DOMAIN issues \cap DOMAIN issues' :
          \/ issues'[id].status = issues[id].status
          \/ <<issues[id].status, issues'[id].status>> \in LifecycleEdges
          \/ /\ issues[id].status = "corrected"
             /\ issues'[id].status = "reviewing"
             /\ UndoneInStep(id)]_vars

\* C8: once an issue is skipped, no step changes its status, applies a
\* correction for it or undoes one of its corrections.
C8_SkippedTerminal ==
    [][\A id \in DOMAIN issues \cap DOMAIN issues' :
          issues[id].status = "skipped" =>
              /\ issues'[id].status = "skipped"
              /\ ~AppliedInStep(id)
              /\ ~UndoneInStep(id)]_vars

\* C10: no step other than the deletion of the project removes a Correction
\* row; an undo only sets its applied flag to false.
C10_AuditTrail ==
    [][page_row' # None =>
          /\ DOMAIN corrections \subseteq DOMAIN corrections'
          /\ \A c \in DOMAIN corrections :
                corrections'[c] = corrections[c]
                \/ corrections'[c] = [corrections[c] EXCEPT !.applied = FALSE]]_vars


(***************************************************************************)
(* SpecCorrections: apply and undo requests on one issue of a wide page    *)
(***************************************************************************)
\* the page under correction: distinct tones, or one tone everywhere
PageImages == {GradientPage(PageW, PageH), UniformPage(PageW, PageH)}

\* bboxes at the page's origin, near it, in its middle and at its far corner
CorrectionBboxes ==
    {[x |-> 0, y |-> 0, width |-> 2, height |-> 1],
     [x |-> 1, y |-> 0, width |-> 2, height |-> 1],
     [x |-> 50, y |-> 1, width |-> 2, height |-> 1],
     [x |-> PageW - 2, y |-> 0, width |-> 2, height |-> 2]}

\* the issue under correction, reviewed and with candidates
ReviewedIssue(bbox) ==
    [bbox_x |-> bbox.x, bbox_y |-> bbox.y,
     bbox_width |-> bbox.width, bbox_height |-> bbox.height,
     issue_type |-> "garbled", confidence |-> Some(90),
     ocr_text |-> <<"<25A1>", "<25A1>">>,
     detected_problems |-> BlockProblems(GarbledBlock),
     status |-> "reviewing", auto_correctable |-> TRUE,
     candidates |-> Some(<<[text |-> <<"a", "b">>, confidence |-> 95],
                           [text |-> <<"c", "d">>, confidence |-> 60]>>)]

InitCorrections ==
    /\ IdlePure
    /\ page \in PageImages /\ page0 = page /\ patches = << >>
    /\ page_row = Some([ocr_status |-> "completed", ocr_result |-> None])
    /\ issues \in {<<ReviewedIssue(bbox)>> : bbox \in CorrectionBboxes}
    /\ corrections = << >>
    /\ next_issue_id = 2 /\ next_correction_id = 1
    /\ db_cascade = FALSE
    /\ req = << >>

\* the requests a client sends for the issue
ClientCreateCorrection == create_correction(RequestMethods, MaxCorrections)
ClientBatchApply == batch_apply_corrections(RequestMethods, MaxCorrections)
WorkerApplyCorrection == apply_issue_correction(RequestMethods, MaxCorrections)

NextCorrections ==
    \/ UndoCorrectionEndpointFails
    \/ ClientCreateCorrection
    \/ UndoCorrectionEndpoint
    \/ ClientBatchApply
    \/ WorkerApplyCorrection

SpecCorrections == InitCorrections /\ [][NextCorrections]_vars

\* one correction was applied to the page as uploaded and then undone, and
\* nothing else was done
AppliedThenUndone ==
    /\ next_correction_id = 2
    /\ 1 \in DOMAIN corrections
    /\ ~corrections[1].applied

(* C1: applying a correction and then undoing it restores the page image pixel
   for pixel and leaves the issue in status reviewing. *)
C1_UndoRestoresPage ==
    AppliedThenUndone =>
        /\ page = page0
        /\ issues[corrections[1].issue_id].status = "reviewing"

\* the applied corrections of an issue
AppliedCorrections(issue_id) ==
    {c \in DOMAIN corrections :
        corrections[c].issue_id = issue_id /\ corrections[c].applied}

(* C11: a step in which the undo endpoint reports a failure (missing before
   patch, storage read or write error) answers with the endpoint's own error
   and leaves the page image, the Correction rows (applied still true) and the
   issues as they were. *)
C11_UndoFailureChangesNothing ==
    [][req' # req =>
          /\ req'[1].status_code = 500
          /\ req'[1].detail = "Failed to undo correction"
          /\ page' = page
          /\ corrections' = corrections
          /\ corrections'[req'[1].correction_id].applied
          /\ issues' = issues]_vars

\* an undo failed on a missing before patch after the correction had changed
\* the page; the correction is still applied and its issue still corrected
C11_Witness ==
    /\ req # << >>
    /\ req[1].fault = "patch_missing"
    /\ page # page0
    /\ corrections[req[1].correction_id].applied
    /\ issues[corrections[req[1].correction_id].issue_id].status = "corrected"

(* C9: after any sequence of apply and undo requests, each issue has at most
   one Correction row with applied = true. *)
C9_AtMostOneApplied ==
    \A issue_id \in 1..MaxIssueId : Cardinality(AppliedCorrections(issue_id)) <= 1


(***************************************************************************)
(* SpecRace: apply and undo requests run by concurrent workers.  Each      *)
(* request executes the statements of correction_service one storage       *)
(* access after the other; no lock is taken anywhere.                      *)
(***************************************************************************)
\* two issues whose ROIs (bbox plus margin) do not meet
LeftBbox == [x |-> 0, y |-> 0, width |-> 2, height |-> 1]
RightBbox == [x |-> PageW - 2, y |-> 0, width |-> 2, height |-> 1]

\* the page and the rows when the second issue was corrected beforehand
Precorrected ==
    apply_correction(GradientPage(PageW, PageH), << >>, RightBbox,
                     <<"c", "d">>, "text_overlay", 2, "none")

IdleRequest ==
    [pc |-> "idle", kind |-> "none", issue_id |-> 0, correction_id |-> 0,
     corrected_text |-> << >>, patch |-> None, at |-> None,
     page_img |-> None, updated |-> None]

InitRace ==
    /\ IdlePure
    /\ \E precorrected \in BOOLEAN :
        /\ page = IF precorrected THEN Precorrected.page
                  ELSE GradientPage(PageW, PageH)
        /\ patches = IF precorrected THEN Precorrected.patches ELSE << >>
        /\ issues = <<ReviewedIssue(LeftBbox),
                      [ReviewedIssue(RightBbox) EXCEPT
                          !.status = IF precorrected THEN "corrected"
                                     ELSE "reviewing"]>>
        /\ corrections =
              IF precorrected
              THEN <<CorrectionRow(2, "text_overlay", <<"c", "d">>, Precorrected)>>
              ELSE << >>
        /\ next_correction_id = IF precorrected THEN 2 ELSE 1
    /\ page0 = page
    /\ page_row = Some([ocr_status |-> "completed", ocr_result |-> None])
    /\ next_issue_id = 3
    /\ db_cascade = FALSE
    /\ req = [i \in 1..NumRequests |-> IdleRequest]

\* apply_correction up to the saving of the after patch: the ROI is cut from
\* the stored page, the patches are saved and the corrected patch is kept
ApplyExtract ==
    \E i \in 1..NumRequests, issue_id \in 1..MaxIssueId,
       corrected_text \in RequestTexts :
        /\ req[i].pc = "idle"
        /\ issue_id \in DOMAIN issues
        /\ \E issue \in {issues[issue_id]} :
           \E ex \in {extract_roi_with_margin(page, IssueBbox(issue), roi_margin)} :
           \E r \in {RenderCorrection(ex.roi,
                                     BboxInRoi(ex.adjusted_bbox, IssueBbox(issue)),
                                     corrected_text, "text_overlay", "none")} :
               /\ patches' = SaveBytes(SaveBytes(patches, BeforePath(issue_id), ex.roi),
                                       AfterPath(issue_id), r.img)
               /\ req' = [req EXCEPT ![i] =
                             [IdleRequest EXCEPT
                                 !.pc = "paste", !.kind = "apply",
                                 !.issue_id = issue_id,
                                 !.corrected_text = corrected_text,
                                 !.patch = Some(r.img),
                                 !.at = Some([x |-> ex.adjusted_bbox.x,
                                              y |-> ex.adjusted_bbox.y])]]
        /\ UNCHANGED <<page, page0, pureVars, dbVars>>

\* undo_correction_endpoint up to storage().get(patch_before_path)
UndoGetPatch ==
    \E i \in 1..NumRequests, correction_id \in 1..(NumRequests + 1) :
        /\ req[i].pc = "idle"
        /\ correction_id \in DOMAIN corrections
        /\ corrections[correction_id].applied
        /\ corrections[correction_id].issue_id \in DOMAIN issues
        /\ Stored(patches, corrections[correction_id].patch_before_path)
        /\ req' = [req EXCEPT ![i] =
                      [IdleRequest EXCEPT
                          !.pc = "paste", !.kind = "undo",
                          !.issue_id = corrections[correction_id].issue_id,
                          !.correction_id = correction_id,
                          !.patch = Some(patches[corrections[correction_id]
                                                     .patch_before_path]),
                          !.at = Some(IssueBbox(
                                     issues[corrections[correction_id].issue_id]))]]
        /\ UNCHANGED <<storeVars, pureVars, dbVars>>

\* apply_patch_to_page: the stored page is loaded and the patch pasted on it
PastePatch ==
    \E i \in 1..NumRequests :
        /\ req[i].pc = "paste"
        /\ req' = [req EXCEPT ![i] =
                      [req[i] EXCEPT
                          !.pc = "save",
                          !.page_img = Some(page),
                          !.updated = Some(apply_patch_to_page(
                                               page, req[i].patch[1], req[i].at[1]))]]
        /\ UNCHANGED <<storeVars, pureVars, dbVars>>

\* the mutant: the patch is pasted on the page stored at the time of the save
SavePage_Recomposed(stored_page, local) ==
    apply_patch_to_page(stored_page, local.patch[1], local.at[1])

\* storage().save_bytes(updated_page_bytes, page_image_path): the stored page
\* becomes the bytes the request computed
SavePage(stored_page, local) == local.updated[1]

SaveUpdatedPage ==
    \E i \in 1..NumRequests :
        /\ req[i].pc = "save"
        /\ page' = SavePage(page, req[i])
        /\ req' = [req EXCEPT ![i].pc = "commit"]
        /\ UNCHANGED <<page0, patches, pureVars, dbVars>>

\* the caller of apply_correction adds the Correction row and commits
ApplyCommit ==
    \E i \in 1..NumRequests :
        /\ req[i].pc = "commit" /\ req[i].kind = "apply"
        /\ corrections' =
              InsertCorrection(corrections, next_correction_id,
                  CorrectionRow(req[i].issue_id, "text_overlay",
                                req[i].corrected_text,
                                [before_path |-> BeforePath(req[i].issue_id),
                                 after_path |-> AfterPath(req[i].issue_id)]))
        /\ issues' = [issues EXCEPT ![req[i].issue_id].status = "corrected"]
        /\ next_correction_id' = next_correction_id + 1
        /\ req' = [req EXCEPT ![i].pc = "done"]
        /\ UNCHANGED <<page_row, next_issue_id, db_cascade, storeVars, pureVars>>

\* undo_correction_endpoint after undo_correction returned True
UndoCommit ==
    \E i \in 1..NumRequests :
        /\ req[i].pc = "commit" /\ req[i].kind = "undo"
        /\ corrections' =
              [corrections EXCEPT ![req[i].correction_id].applied = FALSE]
        /\ issues' = [issues EXCEPT ![req[i].issue_id].status = "reviewing"]
        /\ req' = [req EXCEPT ![i].pc = "done"]
        /\ UNCHANGED <<page_row, next_issue_id, next_correction_id, db_cascade,
                       storeVars, pureVars>>

NextRace ==
    \/ ApplyExtract
    \/ UndoGetPatch
    \/ PastePatch
    \/ SaveUpdatedPage
    \/ ApplyCommit
    \/ UndoCommit

SpecRace == InitRace /\ [][NextRace]_vars


AllRequestsDone == \A i \in 1..NumRequests : req[i].pc = "done"

\* the pixels request i changed in the page image it had loaded
ChangedPixels(i) ==
    {c \in Coords(req[i].page_img[1].width, req[i].page_img[1].height) :
        req[i].updated[1].pix[c] # req[i].page_img[1].pix[c]}

\* the stored page shows nothing of what request i changed
EditLost(i) ==
    /\ ChangedPixels(i) # {}
    /\ \A c \in ChangedPixels(i) : page.pix[c] = req[i].page_img[1].pix[c]

\* every request loaded the page before any of them saved it, and no two of
\* them changed a common pixel
ReadBeforeAnyWrite ==
    /\ AllRequestsDone
    /\ \A i \in 1..NumRequests : req[i].page_img[1] = page0
    /\ \A i, j \in 1..NumRequests :
          i # j => ChangedPixels(i) \cap ChangedPixels(j) = {}

\* C2: when apply and undo requests on one page have all loaded the page
\* before any of them saved it, the page stored in the end lacks the edit of
\* at least one of them, although their edits touch disjoint pixels.
C2_LostUpdate ==
    ReadBeforeAnyWrite => \E i \in 1..NumRequests : EditLost(i)

\* two applies on issues with disjoint bboxes and disjoint ROIs finished and
\* both Correction rows say applied, yet the first one's edit is not on the page
C2_Witness ==
    /\ ReadBeforeAnyWrite
    /\ req[1].kind = "apply" /\ req[2].kind = "apply"
    /\ req[1].issue_id = 1 /\ req[2].issue_id = 2
    /\ \A i \in 1..NumRequests :
          \E c \in DOMAIN corrections :
              corrections[c].issue_id = req[i].issue_id /\ corrections[c].applied
    /\ EditLost(1)
    /\ ~EditLost(2)


(***************************************************************************)
(* SpecApply: one apply of a correction, by a direct call of               *)
(* apply_correction or by the worker task, under every behaviour of the    *)
(* AI editor                                                               *)
(***************************************************************************)
editor_max_retries == 3     \* GeminiImageEditor.max_retries
task_max_retries == 2       \* apply_issue_correction: max_retries of the task

\* what one call of model.generate_content does: it answers with an image or
\* without one, or it raises an error whose message names the thought
\* signature, the rate limit, the quota, or none of these
ApiResponses ==
    {"image", "no_image", "signature_error", "rate_error", "quota_error",
     "other_error"}

\* the responses after which edit_roi_patch makes another attempt
RetriedResponses == {"signature_error", "other_error"}

\* the editor's model cannot be loaded: _get_model raises
LoadError == <<"load_error">>

\* the responses the editor meets in one call of edit_roi_patch, attempt by
\* attempt: each but the last is one it retries after
EditorRuns ==
    {run \in UNION {[1..n -> ApiResponses] : n \in 1..editor_max_retries} :
        /\ \A k \in 1..(Len(run) - 1) : run[k] \in RetriedResponses
        /\ Len(run) < editor_max_retries => run[Len(run)] \notin RetriedResponses}
    \cup {LoadError}

\* the editor is called for the method nano_banana only
EditorRunsOf(method) == IF method = "nano_banana" THEN EditorRuns ELSE {<< >>}

\* the loop of edit_roi_patch from the given attempt on (attempts count from 0)
RECURSIVE EditRoiPatchFrom(_, _)
EditRoiPatchFrom(run, attempt) ==
    IF attempt >= editor_max_retries
    THEN [image |-> FALSE, status |-> "Max retries exceeded"]
    ELSE LET response == run[attempt + 1] IN
         IF response = "image" THEN [image |-> TRUE, status |-> "success"]
         ELSE IF response = "no_image"
         THEN [image |-> FALSE, status |-> "No image in Gemini response"]
         ELSE IF response = "signature_error"
         THEN EditRoiPatchFrom(run, attempt + 1)
         ELSE IF response \in {"rate_error", "quota_error"}
         THEN [image |-> FALSE, status |-> "Rate limited"]
         ELSE IF attempt = editor_max_retries - 1
         THEN [image |-> FALSE, status |-> "Gemini error after attempts"]
         ELSE EditRoiPatchFrom(run, attempt + 1)

\* GeminiImageEditor.edit_roi_patch: whether it returns an image, its status
\* message, and whether it raises instead of returning (_get_model is called
\* outside the try block)
edit_roi_patch(run) ==
    IF run = LoadError
    THEN [raised |-> TRUE, image |-> FALSE, status |-> "load_error"]
    ELSE [raised |-> FALSE] @@ EditRoiPatchFrom(run, 0)

\* correction_service.apply_nano_banana: (result_bytes is not None, status);
\* every branch returns, an exception of the editor included
apply_nano_banana(run) ==
    LET edited == edit_roi_patch(run) IN
    IF edited.raised THEN [image |-> FALSE, status |-> "nano_banana_error"]
    ELSE IF edited.image THEN [image |-> TRUE, status |-> "nano_banana_success"]
    ELSE [image |-> FALSE, status |-> "nano_banana_failed"]

\* the outcome of the editor as apply_correction sees it: corrected_bytes is
\* an image or None
AiOutcomeOf(method, run) ==
    IF method = "nano_banana" /\ apply_nano_banana(run).image
    THEN "image" ELSE "none"

\* what the storage does when an execution of the task reads the page image:
\* it returns it, or it raises an error whose message does or does not
\* contain "rate"
ReadOutcomes == {"read", "io_error", "rate_error"}

\* the executions of one task, retries included: an execution is followed by
\* another one only if it ended in self.retry, and at most task_max_retries
\* times
TaskHistories ==
    {h \in UNION {[1..n -> ReadOutcomes] : n \in 1..(task_max_retries + 1)} :
        /\ \A k \in 1..(Len(h) - 1) : h[k] = "rate_error"
        /\ Len(h) <= task_max_retries => h[Len(h)] # "rate_error"}

\* bboxes of the issue on the small page
ApplyBboxes ==
    {[x |-> 1, y |-> 0, width |-> 2, height |-> 1],
     [x |-> SmallPageW - 3, y |-> 0, width |-> 2, height |-> 1]}

InitApply ==
    /\ IdlePure
    /\ page = GradientPage(SmallPageW, PageH)
    /\ page0 = page /\ patches = << >>
    /\ page_row = Some([ocr_status |-> "completed", ocr_result |-> None])
    /\ issues \in {<<ReviewedIssue(bbox)>> : bbox \in ApplyBboxes}
    /\ corrections = << >>
    /\ next_issue_id = 2 /\ next_correction_id = 1
    /\ db_cascade = FALSE
    /\ req = << >>

\* a call of correction_service.apply_correction on the issue, with any method
\* string and any behaviour of the editor; req keeps the arguments and the
\* status returned
ApplyCorrectionCall ==
    \E corrected_text \in RequestTexts, method \in RequestMethods :
      \E run \in EditorRunsOf(method) :
        /\ req = << >>
        /\ \E applied \in {apply_correction(page, patches, IssueBbox(issues[1]),
                                             corrected_text, method, 1,
                                             AiOutcomeOf(method, run))} :
               /\ page' = applied.page
               /\ patches' = applied.patches
               /\ req' = <<[kind |-> "call", method |-> method, run |-> run,
                            corrected_text |-> corrected_text, executions |-> 1,
                            outcome |-> "returned", status |-> applied.status]>>
        /\ UNCHANGED <<page0, pureVars, dbVars>>

\* worker/tasks/correction_task.py apply_issue_correction with its retries:
\* the last execution returns the success dict, returns the error dict, or
\* raises the error it was retried for; req keeps the arguments and the result
ApplyIssueCorrectionRun ==
    \E corrected_text \in RequestTexts, method \in RequestMethods,
       history \in TaskHistories :
      \E last \in {history[Len(history)]} :
      \E run \in IF last = "read" THEN EditorRunsOf(method) ELSE {<< >>} :
        /\ req = << >>
        /\ IF last = "read"
           THEN \E applied \in {apply_correction(page, patches,
                                     IssueBbox(issues[1]), corrected_text,
                                     method, 1, AiOutcomeOf(method, run))} :
                   /\ page' = applied.page
                   /\ patches' = applied.patches
                   /\ corrections' =
                          InsertCorrection(corrections, next_correction_id,
                              CorrectionRow(1, method, corrected_text, applied))
                   /\ issues' = [issues EXCEPT ![1].status = "corrected"]
                   /\ next_correction_id' = next_correction_id + 1
                   /\ req' = <<[kind |-> "task", method |-> method, run |-> run,
                                corrected_text |-> corrected_text,
                                executions |-> Len(history),
                                outcome |-> "success", status |-> applied.status]>>
           ELSE /\ req' = <<[kind |-> "task", method |-> method, run |-> run,
                             corrected_text |-> corrected_text,
                             executions |-> Len(history),
                             outcome |-> IF last = "rate_error" THEN "failed"
                                         ELSE "error",
                             status |-> "none"]>>
                /\ UNCHANGED <<page, patches, corrections, issues,
                               next_correction_id>>
        /\ UNCHANGED <<page0, page_row, next_issue_id, db_cascade, pureVars>>

NextApply == ApplyCorrectionCall \/ ApplyIssueCorrectionRun

SpecApply == InitApply /\ [][NextApply]_vars

\* the apply that req records, its ROI and the overlay rendering of it
Applied == req # << >> /\ req[1].outcome \in {"returned", "success"}
AppliedRoi == extract_roi_with_margin(page0, IssueBbox(issues[1]), roi_margin)
AppliedOverlay ==
    apply_text_overlay(AppliedRoi.roi,
                       BboxInRoi(AppliedRoi.adjusted_bbox, IssueBbox(issues[1])),
                       req[1].corrected_text)

\* the editor returned an image: the last response it met carried one
EditorReturnedImage == req[1].run[Len(req[1].run)] = "image"

(* C12: for the method nano_banana, an apply whose editor yields no image (no
   image in the response, signature error, quota or rate error, any raised
   exception) still completes: the after patch saved is the text overlay
   rendering, the page is overwritten with it and the status returned is
   fallback_to_text_overlay; the status is nano_banana_success exactly when
   the editor returned an image. *)
C12_AiFailureFallsBack ==
    (Applied /\ req[1].method = "nano_banana") =>
        /\ req[1].status = "nano_banana_success" <=> EditorReturnedImage
        /\ ~EditorReturnedImage =>
              /\ req[1].status = "fallback_to_text_overlay"
              /\ Stored(patches, AfterPath(1))
              /\ patches[AfterPath(1)] = AppliedOverlay
              /\ page = apply_patch_to_page(page0, AppliedOverlay,
                                            [x |-> AppliedRoi.adjusted_bbox.x,
                                             y |-> AppliedRoi.adjusted_bbox.y])
              /\ page # page0

\* the editor raised the quota error on its second attempt, and the call of
\* apply_correction returned the fallback status with the overlay on the page
C12_Witness ==
    /\ Applied /\ req[1].kind = "call" /\ req[1].method = "nano_banana"
    /\ req[1].run = <<"signature_error", "quota_error">>
    /\ req[1].status = "fallback_to_text_overlay"
    /\ patches[AfterPath(1)] = AppliedOverlay
    /\ page # page0


\* the editor of the recorded task met a rate-limit or quota error
EditorRateLimited ==
    /\ req # << >> /\ req[1].kind = "task" /\ req[1].method = "nano_banana"
    /\ req[1].run # << >>
    /\ req[1].run[Len(req[1].run)] \in {"rate_error", "quota_error"}

(* C13: a rate-limit or quota failure of the AI editor during an apply is not
   absorbed by the text overlay fallback: the task apply_issue_correction is
   retried up to its retry bound and then reports the correction as failed,
   with no overlay written on the page. *)
C13_RateLimitReachesDispatch ==
    EditorRateLimited =>
        /\ req[1].outcome = "failed"
        /\ req[1].executions = task_max_retries + 1
        /\ req[1].status # "fallback_to_text_overlay"
        /\ page = page0


\* the method strings the service implements
KnownMethods == {"text_overlay", "nano_banana"}

(* C14: an unknown correction method (anything other than text_overlay or
   nano_banana) is rejected on every entry path before any patch is saved or
   the page image is modified, so that no Correction row ever carries an
   unknown method. *)
C14_UnknownMethodRejected ==
    \A id \in DOMAIN corrections :
        corrections[id].correction_method \in KnownMethods


(***************************************************************************)
(* SpecMerge: merge_nearby_issues on bounded lists of issues               *)
(***************************************************************************)
MaxMergeIssues == 3     \* issues in a list given to merge_nearby_issues

\* the two boxes of the documented example, a box next to the second one, a
\* box inside the first one, a box below the first one and a box far away
MergeBboxes ==
    {[x |-> 0, y |-> 0, width |-> 50, height |-> 20],
     [x |-> 45, y |-> 5, width |-> 50, height |-> 20],
     [x |-> 110, y |-> 0, width |-> 10, height |-> 10],
     [x |-> 10, y |-> 5, width |-> 5, height |-> 5],
     [x |-> 0, y |-> 45, width |-> 10, height |-> 10],
     [x |-> 300, y |-> 300, width |-> 10, height |-> 10]}

\* the text of the k-th issue of a list: one letter, its own
MergeLabel(k) == <<<<"a">>, <<"b">>, <<"c">>, <<"d">>, <<"e">>>>[k]

\* the k-th issue of a list, as detect_issues emits it for a block read with
\* low confidence
MergeInput(k, bbox) ==
    BlockIssue([text |-> MergeLabel(k), confidence |-> 70 - k, bbox |-> bbox])

MergeThresholds == {0, merge_threshold}

InitMerge ==
    /\ IdlePure /\ IdleStore /\ IdleDb
    /\ req \in
          {<<[kind |-> "merge",
              issues |-> [k \in 1..Len(boxes) |-> MergeInput(k, boxes[k])],
              threshold |-> threshold,
              result |-> None]>> :
              boxes \in UNION {[1..n -> MergeBboxes] : n \in 0..MaxMergeIssues},
              threshold \in MergeThresholds}

MergeNearbyIssues ==
    /\ req # << >> /\ req[1].kind = "merge" /\ req[1].result = None
    /\ req' = <<[req[1] EXCEPT
                    !.result = Some(merge_nearby_issues(req[1].issues,
                                                        req[1].threshold))]>>
    /\ UNCHANGED <<pureVars, storeVars, dbVars>>

NextMerge == MergeNearbyIssues

SpecMerge == InitMerge /\ [][NextMerge]_vars

MergeDone == req # << >> /\ req[1].kind = "merge" /\ req[1].result # None

\* the input issues merged into an emitted issue: those whose letter its text
\* holds
MergedInto(issue) ==
    {i \in 1..Len(req[1].issues) :
        req[1].issues[i].ocr_text[1] \in CharSet(issue.ocr_text)}

MinOf(S) == CHOOSE m \in S : \A s \in S : m <= s
MaxOf(S) == CHOOSE m \in S : \A s \in S : m >= s

\* the smallest axis-aligned rectangle containing the bboxes of the input
\* issues of a set
BoundingBox(G) ==
    LET in == req[1].issues
        x1 == MinOf({in[i].bbox_x : i \in G})
        y1 == MinOf({in[i].bbox_y : i \in G})
        x2 == MaxOf({in[i].bbox_x + in[i].bbox_width : i \in G})
        y2 == MaxOf({in[i].bbox_y + in[i].bbox_height : i \in G})
    IN  [x |-> x1, y |-> y1, width |-> x2 - x1, height |-> y2 - y1]

(* C15: every issue emitted by merge_nearby_issues has as bbox the smallest
   axis-aligned rectangle containing the bboxes of all input issues merged
   into it, and every input issue is merged into exactly one emitted issue;
   the issues with bboxes {0,0,50,20} and {45,5,50,20} at threshold 20 give
   exactly one issue, with bbox {0,0,95,25}. *)
C15_MergeIsBoundingUnion ==
    MergeDone =>
        LET out == req[1].result[1] IN
        /\ \A k \in 1..Len(out) :
              /\ MergedInto(out[k]) # {}
              /\ IssueBbox(out[k]) = BoundingBox(MergedInto(out[k]))
        /\ \A i \in 1..Len(req[1].issues) :
              Cardinality({k \in 1..Len(out) : i \in MergedInto(out[k])}) = 1
        /\ (/\ Len(req[1].issues) = 2
            /\ IssueBbox(req[1].issues[1]) = [x |-> 0, y |-> 0, width |-> 50, height |-> 20]
            /\ IssueBbox(req[1].issues[2]) = [x |-> 45, y |-> 5, width |-> 50, height |-> 20]
            /\ req[1].threshold = 20)
           => /\ Len(out) = 1
              /\ IssueBbox(out[1]) = [x |-> 0, y |-> 0, width |-> 95, height |-> 25]

\* three issues were merged into one: the two of the example and the box next
\* to the second, which is not near the first
C15_Witness ==
    /\ MergeDone
    /\ Len(req[1].issues) = 3 /\ Len(req[1].result[1]) = 1
    /\ req[1].threshold = merge_threshold
    /\ IssueBbox(req[1].issues[1]) = [x |-> 0, y |-> 0, width |-> 50, height |-> 20]
    /\ IssueBbox(req[1].issues[2]) = [x |-> 45, y |-> 5, width |-> 50, height |-> 20]
    /\ IssueBbox(req[1].issues[3]) = [x |-> 110, y |-> 0, width |-> 10, height |-> 10]
    /\ IssueBbox(req[1].result[1][1]) = [x |-> 0, y |-> 0, width |-> 120, height |-> 25]


(***************************************************************************)
(* SpecRoi: extract_roi_with_margin on bounded pages, bboxes and margins   *)
(***************************************************************************)
\* page sizes: the page of the documented example, a page wider than the ROI
\* cap and lower than it, and a page smaller than the margin
RoiPageSizes ==
    {[width |-> 1000, height |-> 1000],
     [width |-> 600, height |-> 400],
     [width |-> 30, height |-> 20]}

\* bboxes with width > 0 and height > 0 in page-pixel coordinates: near the
\* origin, in the middle, at the far corner of the large page, larger than the
\* ROI cap (by an even and by an odd number of pixels once the margin is
\* added), one at the left edge that is narrower than the cap, and one drawn
\* to the right of every page
RoiBboxes ==
    {[x |-> 10, y |-> 10, width |-> 20, height |-> 20],
     [x |-> 0, y |-> 0, width |-> 480, height |-> 20],
     [x |-> 100, y |-> 100, width |-> 451, height |-> 50],
     [x |-> 0, y |-> 0, width |-> 1, height |-> 1],
     [x |-> 300, y |-> 200, width |-> 100, height |-> 30],
     [x |-> 970, y |-> 975, width |-> 30, height |-> 25],
     [x |-> 100, y |-> 100, width |-> 450, height |-> 50],
     [x |-> 20, y |-> 30, width |-> 560, height |-> 470],
     [x |-> 1100, y |-> 10, width |-> 20, height |-> 20]}

RoiMargins == {0, 5, roi_margin}

InitRoi ==
    /\ IdlePure /\ IdleStore /\ IdleDb
    /\ req \in {<<[kind |-> "extract_roi", size |-> size, bbox |-> bbox,
                   margin |-> margin, result |-> None]>> :
                   size \in RoiPageSizes, bbox \in RoiBboxes,
                   margin \in RoiMargins}

\* extract_roi_with_margin on a page of the given size; the result kept is
\* adjusted_bbox and the size of the cropped image
ExtractRoiWithMargin ==
    /\ req # << >> /\ req[1].kind = "extract_roi" /\ req[1].result = None
    /\ \E ex \in {extract_roi_with_margin(
                      UniformPage(req[1].size.width, req[1].size.height),
                      req[1].bbox, req[1].margin)} :
          req' = <<[req[1] EXCEPT
                       !.result = Some([adjusted_bbox |-> ex.adjusted_bbox,
                                        roi_width |-> ex.roi.width,
                                        roi_height |-> ex.roi.height])]>>
    /\ UNCHANGED <<pureVars, storeVars, dbVars>>

NextRoi == ExtractRoiWithMargin

SpecRoi == InitRoi /\ [][NextRoi]_vars

RoiDone == req # << >> /\ req[1].kind = "extract_roi" /\ req[1].result # None

\* the bbox expanded by the margin and clamped as the documentation states
\* it: <<x1, y1, x2, y2>>
ClampedBox ==
    LET b == req[1].bbox
        m == req[1].margin
    IN  <<IF b.x - m > 0 THEN b.x - m ELSE 0,
          IF b.y - m > 0 THEN b.y - m ELSE 0,
          IF b.x + b.width + m < req[1].size.width
          THEN b.x + b.width + m ELSE req[1].size.width,
          IF b.y + b.height + m < req[1].size.height
          THEN b.y + b.height + m ELSE req[1].size.height>>

\* neither size cap is exceeded by the clamped box
NoCapExceeded ==
    /\ ClampedBox[3] - ClampedBox[1] <= max_roi_width
    /\ ClampedBox[4] - ClampedBox[2] <= max_roi_height

(* C16: when no size cap is exceeded, extract_roi_with_margin returns the ROI
   with x1 = max(0, x - margin), y1 = max(0, y - margin), x2 = min(image width,
   x + width + margin), y2 = min(image height, y + height + margin), and the
   ROI lies inside the image; on a 1000x1000 page with bbox {10,10,20,20} and
   margin 40 the ROI has origin (0,0), width 70 and original-bbox offset
   (10,10). *)
C16_RoiClampedInsideImage ==
    (RoiDone /\ NoCapExceeded) =>
        LET a == req[1].result[1].adjusted_bbox IN
        /\ a.x = ClampedBox[1] /\ a.y = ClampedBox[2]
        /\ a.x + a.width = ClampedBox[3] /\ a.y + a.height = ClampedBox[4]
        /\ 0 <= a.x /\ a.x <= a.x + a.width /\ a.x + a.width <= req[1].size.width
        /\ 0 <= a.y /\ a.y <= a.y + a.height
        /\ a.y + a.height <= req[1].size.height
        /\ (/\ req[1].size = [width |-> 1000, height |-> 1000]
            /\ req[1].bbox = [x |-> 10, y |-> 10, width |-> 20, height |-> 20]
            /\ req[1].margin = 40)
           => /\ a.x = 0 /\ a.y = 0 /\ a.width = 70
              /\ a.original_bbox_offset = [x |-> 10, y |-> 10]


(***************************************************************************)
(* SpecOverlay: apply_text_overlay on bounded images, target rectangles    *)
(* and font installations                                                  *)
(***************************************************************************)
\* range(0, n, step)
RangeStep(n, step) == {k \in 0..(n - 1) : k % step = 0}

\* sample_margin of estimate_background_color
sample_margin == 5

\* the mutant: the samples around the rectangle are read without asking
\* whether the margin falls outside the image
BackgroundSamples_Unguarded(w, h, x, y, width, height) ==
    UNION {{<<Min2(x + dx, w - 1), y - sample_margin>>,
            <<Min2(x + dx, w - 1), y + height + sample_margin>>} :
              dx \in RangeStep(width, Max2(1, width \div 10))}
    \cup
    UNION {{<<x - sample_margin, Min2(y + dy, h - 1)>>,
            <<x + width + sample_margin, Min2(y + dy, h - 1)>>} :
              dy \in RangeStep(height, Max2(1, height \div 10))}

\* the coordinates estimate_background_color gives to img.getpixel, for an
\* image of width w and height h
BackgroundSamples(w, h, x, y, width, height) ==
    UNION {(IF y - sample_margin >= 0
            THEN {<<Min2(x + dx, w - 1), y - sample_margin>>} ELSE {})
           \cup
           (IF y + height + sample_margin < h
            THEN {<<Min2(x + dx, w - 1), y + height + sample_margin>>} ELSE {}) :
              dx \in RangeStep(width, Max2(1, width \div 10))}
    \cup
    UNION {(IF x - sample_margin >= 0
            THEN {<<x - sample_margin, Min2(y + dy, h - 1)>>} ELSE {})
           \cup
           (IF x + width + sample_margin < w
            THEN {<<x + width + sample_margin, Min2(y + dy, h - 1)>>} ELSE {}) :
              dy \in RangeStep(height, Max2(1, height \div 10))}

\* the coordinates estimate_text_color gives to img.getpixel itself
TextSamples(w, h, x, y, width, height) ==
    {<<Min2(x + dx, w - 1), Min2(y + dy, h - 1)>> :
        dx \in RangeStep(width, Max2(1, width \div 5)),
        dy \in RangeStep(height, Max2(1, height \div 5))}

\* every coordinate apply_text_overlay reads: estimate_background_color, then
\* estimate_text_color, which estimates the background once more
OverlaySamples(w, h, x, y, width, height) ==
    BackgroundSamples(w, h, x, y, width, height)
    \cup TextSamples(w, h, x, y, width, height)

\* img.getpixel raises IndexError for a coordinate that is not in the image
InImage(c, w, h) == c[1] >= 0 /\ c[1] < w /\ c[2] >= 0 /\ c[2] < h

\* FONT_PATHS: five font files, then None for the built-in font
FONT_PATHS ==
    <<"noto_truetype", "noto_opentype", "hiragino_w3", "hiragino_gb", "dejavu",
      "builtin">>

\* what a font file is on the machine: not there, there and loadable, or
\* there and such that ImageFont.truetype raises
FontFileStates == {"missing", "loads", "broken"}

\* get_font from position k of FONT_PATHS on: a file that is missing or that
\* ImageFont.truetype cannot load is passed over
RECURSIVE GetFontFrom(_, _)
GetFontFrom(installed, k) ==
    IF k > Len(FONT_PATHS) THEN Some("builtin")
    ELSE IF FONT_PATHS[k] = "builtin" THEN Some("builtin")
    ELSE IF installed[FONT_PATHS[k]] = "loads" THEN Some(FONT_PATHS[k])
    ELSE GetFontFrom(installed, k + 1)

get_font(installed) == GetFontFrom(installed, 1)

\* apply_text_overlay for an image of width w and height h: whether it raises
\* and the font it draws with
text_overlay_outcome(w, h, bbox_in_roi, installed) ==
    LET reads == OverlaySamples(w, h, bbox_in_roi.x, bbox_in_roi.y,
                                bbox_in_roi.width, bbox_in_roi.height)
        font == get_font(installed)
    IN  [raised |-> (\E c \in reads : ~InImage(c, w, h)) \/ font = None,
         reads |-> reads,
         font |-> font]

\* image sizes of a ROI
OverlaySizes == {[width |-> 30, height |-> 20], [width |-> 12, height |-> 8]}

\* target rectangles: inside the image, reaching over its edges, and beyond it
OverlayTargets ==
    {[x |-> x, y |-> y, width |-> width, height |-> height] :
        x \in {0, 3, 6, 25, 40}, y \in {0, 6}, width \in {1, 5, 12, 24},
        height \in {1, 8, 14}}

\* machines: no font file, every file unloadable, the first file loadable, only
\* the last file loadable
FontInstallations ==
    {[p \in {FONT_PATHS[k] : k \in 1..5} |-> "missing"],
     [p \in {FONT_PATHS[k] : k \in 1..5} |-> "broken"],
     [p \in {FONT_PATHS[k] : k \in 1..5} |->
         IF p = "noto_truetype" THEN "loads" ELSE "missing"],
     [p \in {FONT_PATHS[k] : k \in 1..5} |->
         IF p = "dejavu" THEN "loads" ELSE "broken"]}

InitOverlay ==
    /\ IdlePure /\ IdleStore /\ IdleDb
    /\ req \in {<<[kind |-> "text_overlay", size |-> size, bbox |-> bbox,
                   installed |-> installed, result |-> None]>> :
                   size \in OverlaySizes, bbox \in OverlayTargets,
                   installed \in FontInstallations}

ApplyTextOverlay ==
    /\ req # << >> /\ req[1].kind = "text_overlay" /\ req[1].result = None
    /\ req' = <<[req[1] EXCEPT
                    !.result = Some(text_overlay_outcome(
                                        req[1].size.width, req[1].size.height,
                                        req[1].bbox, req[1].installed))]>>
    /\ UNCHANGED <<pureVars, storeVars, dbVars>>

NextOverlay == ApplyTextOverlay

SpecOverlay == InitOverlay /\ [][NextOverlay]_vars

OverlayDone == req # << >> /\ req[1].kind = "text_overlay" /\ req[1].result # None

\* the target rectangle is valid: positive extents, fully inside the image
ValidTarget ==
    /\ req[1].bbox.x >= 0 /\ req[1].bbox.y >= 0
    /\ req[1].bbox.width > 0 /\ req[1].bbox.height > 0
    /\ req[1].bbox.x + req[1].bbox.width <= req[1].size.width
    /\ req[1].bbox.y + req[1].bbox.height <= req[1].size.height

(* C17: for every image and every target rectangle with x >= 0, y >= 0,
   width > 0, height > 0, x + width <= image width and y + height <= image
   height, every pixel coordinate read by estimate_background_color and
   estimate_text_color lies inside the image and get_font returns a font, so
   apply_text_overlay returns a patch without raising. *)
C17_TextOverlayNeverFails ==
    (OverlayDone /\ ValidTarget) =>
        /\ \A c \in req[1].result[1].reads :
              /\ 0 <= c[1] /\ c[1] <= req[1].size.width - 1
              /\ 0 <= c[2] /\ c[2] <= req[1].size.height - 1
        /\ req[1].result[1].reads # {}
        /\ req[1].result[1].font # None
        /\ ~req[1].result[1].raised

\* the overlay of a rectangle in the image's corner, with no room for the
\* samples above it and to its left, on a machine without font files
C17_Witness ==
    /\ OverlayDone /\ ValidTarget
    /\ req[1].size = [width |-> 30, height |-> 20]
    /\ req[1].bbox = [x |-> 0, y |-> 0, width |-> 24, height |-> 14]
    /\ req[1].installed["dejavu"] = "missing"
    /\ req[1].result[1].font = Some("builtin")
    /\ <<29, 0>> \in req[1].result[1].reads
    /\ ~req[1].result[1].raised


\* the blocks of the OCR result that produce an issue
ProducingBlocks == {i \in 1..Len(det_blocks) : ProducesIssue(det_blocks[i])}

\* the issue is the one of the block: its text, confidence and bbox
IssueOfBlock(issue, block) ==
    /\ issue.ocr_text = block.text
    /\ issue.confidence = Some(block.confidence)
    /\ IssueBbox(issue) = block.bbox

(* C18: detect_issues returns at most max_issues_per_page issues, and they are
   exactly the issues of the first max_issues_per_page issue-producing blocks,
   in the order of the OCR blocks; the issues of later blocks are dropped. *)
C18_CapKeepsPrefix ==
    det_result # None =>
        LET out == det_result[1] IN
        /\ Len(out) <= max_issues_per_page
        /\ Len(out) = IF Cardinality(ProducingBlocks) < max_issues_per_page
                      THEN Cardinality(ProducingBlocks)
                      ELSE max_issues_per_page
        /\ \A i \in ProducingBlocks :
              IssueRank(i) <= max_issues_per_page
                  => IssueOfBlock(out[IssueRank(i)], det_blocks[i])

\* an OCR result with one issue-producing block more than the cap: the issue of
\* its last block, a garbled one, is not among the issues returned
C18_Witness ==
    /\ det_result # None
    /\ Cardinality(ProducingBlocks) = max_issues_per_page + 1
    /\ Len(det_result[1]) = max_issues_per_page
    /\ Len(det_blocks) \in ProducingBlocks
    /\ HasGarbled(det_blocks[Len(det_blocks)].text)
    /\ \A k \in 1..Len(det_result[1]) :
          ~IssueOfBlock(det_result[1][k], det_blocks[Len(det_blocks)])


\* the tag of the first check that fires for the block, in the order low
\* confidence, garbled glyph, suspicious pattern, large box with short text,
\* low density
FirstFiredTag(block) ==
    IF Check1(block) THEN "low_confidence"
    ELSE IF Check2(block) THEN "garbled"
    ELSE IF Check3(block) THEN "garbled"
    ELSE IF Check4(block) THEN "missing"
    ELSE IF Check5(block) THEN "missing"
    ELSE "none"

(* C19: the issue_type of an issue emitted by detect_issues is the tag of the
   first check that fires for its block, in the order low confidence, garbled
   glyph, suspicious pattern, large box with short text, low density; a later
   check never overrides an issue_type an earlier check has set (a block with
   confidence below 0.8 that also holds a garbled glyph is typed
   low_confidence). *)
C19_FirstCheckSetsType ==
    det_result # None =>
        \A i \in ProducingBlocks :
            IssueRank(i) <= max_issues_per_page
                => det_result[1][IssueRank(i)].issue_type
                       = FirstFiredTag(det_blocks[i])

\* the provisional auto_correctable plays no part: the flag is this decision
\* list on the text, the confidence and the problems of the issue
AutoCorrectableDecision(issue) ==
    IF contains_sensitive_pattern(issue.ocr_text) THEN FALSE
    ELSE IF /\ \E k \in 1..Len(issue.detected_problems) :
                  issue.detected_problems[k].kind = "Garbled characters"
            /\ issue.confidence[1] > 50
    THEN TRUE
    ELSE IF issue.confidence[1] < 60 THEN FALSE
    ELSE IF Len(Strip(issue.ocr_text)) < 5 THEN FALSE
    ELSE TRUE

(* C20: the auto_correctable flag of every issue emitted by detect_issues is
   the result of the ordered decision list on (text, confidence, problems):
   false if the text matches a sensitive pattern; else true if some problem
   mentions "Garbled" and confidence > 0.5; else false if confidence < 0.6;
   else false if the stripped text has fewer than 5 characters; else true.
   The provisional value set by the garbled-glyph check plays no part. *)
C20_AutoCorrectableDecisionList ==
    det_result # None =>
        \A k \in 1..Len(det_result[1]) :
            det_result[1][k].auto_correctable
                = AutoCorrectableDecision(det_result[1][k])

\* the issue of a block with a garbled glyph and confidence 0.55, below the
\* floor of 0.6, was emitted with the flag true
C20_Witness ==
    /\ det_result # None
    /\ Len(det_result[1]) >= 1
    /\ LET last == det_result[1][Len(det_result[1])] IN
       /\ last.ocr_text = <<"a", "<25A1>">>
       /\ last.confidence = Some(55)
       /\ last.auto_correctable


\* the shapes of a proper noun: katakana only and at most 10 characters, kanji
\* only and at most 4 characters, or one capital letter followed by small ones
ProperNounShape(text) ==
    \/ Len(text) \in 1..10 /\ CharSet(text) \subseteq KatakanaChars
    \/ Len(text) \in 1..4 /\ CharSet(text) \subseteq KanjiChars
    \/ /\ Len(text) >= 2 /\ text[1] \in UpperChars
       /\ \A k \in 2..Len(text) : text[k] \in LowerChars

(* C21: whenever the top candidate's text looks like a proper noun (katakana
   only of at most 10 characters, kanji only of at most 4 characters, or a
   single capitalized word), evaluate_auto_adopt returns (False, None), even
   when the original is garbled and the candidate's confidence is above 0.90. *)
C21_ProperNounNeedsReview ==
    (AdoptDone /\ Len(AdoptCands) > 0 /\ ProperNounShape(AdoptTop.text))
        => adopt_result[1] = <<FALSE, None>>

\* a garbled original with the single kanji candidate at confidence 0.95, no
\* text sensitive, was evaluated and not adopted
C21_Witness ==
    /\ AdoptDone
    /\ Len(AdoptCands) = 1
    /\ HasGarbled(AdoptText) /\ ~contains_sensitive_pattern(AdoptText)
    /\ AdoptTop.text = <<"<YAMA>", "<TA>">> /\ AdoptTop.confidence = 95
    /\ adopt_result[1] = <<FALSE, None>>


\* the conditions C22 names, but for the gap between the first two candidates
C22_Eligible ==
    /\ Len(AdoptCands) > 0
    /\ ~contains_sensitive_pattern(AdoptText)
    /\ ~contains_sensitive_pattern(AdoptTop.text)
    /\ ~looks_like_proper_noun(AdoptTop.text)
    /\ AdoptTop.confidence > 80

(* C22 as stated: evaluate_auto_adopt returns (True, 0) exactly when the
   candidate list is non-empty, neither the original nor the top candidate is
   sensitive, the top candidate is not a proper noun, there is a single
   candidate or the gap between the first two confidences is at least 0.15,
   and the top confidence is above 0.80; otherwise it returns (False, None). *)
C22_OneThreshold_Original ==
    AdoptDone =>
        adopt_result[1] =
            IF /\ C22_Eligible
               /\ \/ Len(AdoptCands) = 1
                  \/ AdoptCands[1].confidence - AdoptCands[2].confidence >= 15
            THEN <<TRUE, Some(0)>>
            ELSE <<FALSE, None>>

(* C22 amended: the same, with the gap taken as the code computes it, in
   binary floating point: the difference of the two doubles is not below the
   double 0.15. For 0.95 and 0.80 the difference is 0.1499999999999999 and the
   result is (False, None). The result depends neither on ocr_confidence nor
   on garbled glyphs nor on the similarity of the texts, and the index is 0
   or None. *)
C22_OneThreshold ==
    AdoptDone =>
        adopt_result[1] =
            IF /\ C22_Eligible
               /\ \/ Len(AdoptCands) = 1
                  \/ ~GapBelowThreshold(AdoptCands[1].confidence,
                                        AdoptCands[2].confidence)
            THEN <<TRUE, Some(0)>>
            ELSE <<FALSE, None>>

\* a plain candidate at 0.81, unlike the plain original read at 0.30, with a
\* rival at 0.60, was adopted
C22_Witness ==
    /\ AdoptDone
    /\ Len(AdoptCands) = 2
    /\ AdoptText = <<"X">> /\ adopt_call[1].ocr_confidence = 30
    /\ AdoptTop.text = <<"t", "e", "s", "t">> /\ AdoptTop.confidence = 81
    /\ AdoptCands[2].confidence = 60
    /\ adopt_result[1] = <<TRUE, Some(0)>>


(***************************************************************************)
(* SpecEditor: one call of GeminiImageEditor.edit_roi_patch, attempt by    *)
(* attempt, against every behaviour of the external model                  *)
(***************************************************************************)
\* the words edit_roi_patch looks for in the lowered message of an exception
ErrorKeywords == {"thought", "signature", "rate", "quota"}

\* what model.generate_content does on one call: a response with an inline
\* image, a response without one, or an exception whose message holds any of
\* the words
ModelBehaviours ==
    {[kind |-> "image", mentions |-> {}], [kind |-> "no_image", mentions |-> {}]}
    \cup {[kind |-> "error", mentions |-> m] : m \in SUBSET ErrorKeywords}

\* the mutant: the rate limit is looked for before the thought signature
EditorStep_RateFirst(attempt, behaviour) ==
    IF behaviour.kind = "image"
    THEN [returns |-> TRUE, image |-> TRUE, status |-> "success"]
    ELSE IF behaviour.kind = "no_image"
    THEN [returns |-> TRUE, image |-> FALSE,
          status |-> "No image in Gemini response"]
    ELSE IF behaviour.mentions \cap {"rate", "quota"} # {}
    THEN [returns |-> TRUE, image |-> FALSE, status |-> "Rate limited"]
    ELSE IF behaviour.mentions \cap {"thought", "signature"} # {}
    THEN [returns |-> FALSE, image |-> FALSE, status |-> "continue"]
    ELSE IF attempt = editor_max_retries - 1
    THEN [returns |-> TRUE, image |-> FALSE,
          status |-> "Gemini error after attempts"]
    ELSE [returns |-> FALSE, image |-> FALSE, status |-> "next attempt"]

\* the body of the loop of edit_roi_patch for one attempt (attempts count from
\* 0): whether it returns, and what
EditorStep(attempt, behaviour) ==
    IF behaviour.kind = "image"
    THEN [returns |-> TRUE, image |-> TRUE, status |-> "success"]
    ELSE IF behaviour.kind = "no_image"
    THEN [returns |-> TRUE, image |-> FALSE,
          status |-> "No image in Gemini response"]
    ELSE IF behaviour.mentions \cap {"thought", "signature"} # {}
    THEN [returns |-> FALSE, image |-> FALSE, status |-> "continue"]
    ELSE IF behaviour.mentions \cap {"rate", "quota"} # {}
    THEN [returns |-> TRUE, image |-> FALSE, status |-> "Rate limited"]
    ELSE IF attempt = editor_max_retries - 1
    THEN [returns |-> TRUE, image |-> FALSE,
          status |-> "Gemini error after attempts"]
    ELSE [returns |-> FALSE, image |-> FALSE, status |-> "next attempt"]

\* the mutant: the loop makes one attempt more
EditorLoopRuns_OneMore(attempt) == attempt <= editor_max_retries

\* for attempt in range(self.max_retries): the loop has an attempt to make
EditorLoopRuns(attempt) == attempt < editor_max_retries

\* the call before its first statement: req holds its position, the attempt,
\* the behaviours met so far and the result
InitEditor ==
    /\ IdlePure /\ IdleStore /\ IdleDb
    /\ req = <<[kind |-> "edit_roi_patch", pc |-> "get_model", attempt |-> 0,
                calls |-> << >>, result |-> None]>>

\* model = self._get_model(): the model is there, or its construction raises
\* and so does edit_roi_patch
EditorGetModel ==
    /\ req # << >> /\ req[1].kind = "edit_roi_patch" /\ req[1].pc = "get_model"
    /\ \E loads \in BOOLEAN :
          req' = <<IF loads THEN [req[1] EXCEPT !.pc = "loop"]
                   ELSE [req[1] EXCEPT
                            !.pc = "done",
                            !.result = Some([raised |-> TRUE, image |-> FALSE,
                                             status |-> "load_error"])]>>
    /\ UNCHANGED <<pureVars, storeVars, dbVars>>

\* one attempt of the loop: the model is called once
EditorAttempt ==
    /\ req # << >> /\ req[1].kind = "edit_roi_patch" /\ req[1].pc = "loop"
    /\ EditorLoopRuns(req[1].attempt)
    /\ \E behaviour \in ModelBehaviours :
       \E step \in {EditorStep(req[1].attempt, behaviour)} :
          req' = <<IF step.returns
                   THEN [req[1] EXCEPT
                            !.pc = "done",
                            !.calls = Append(@, behaviour),
                            !.result = Some([raised |-> FALSE,
                                             image |-> step.image,
                                             status |-> step.status])]
                   ELSE [req[1] EXCEPT
                            !.attempt = @ + 1,
                            !.calls = Append(@, behaviour)]>>
    /\ UNCHANGED <<pureVars, storeVars, dbVars>>

\* the loop ends without a return: return None, "Max retries exceeded"
EditorLoopEnds ==
    /\ req # << >> /\ req[1].kind = "edit_roi_patch" /\ req[1].pc = "loop"
    /\ ~EditorLoopRuns(req[1].attempt)
    /\ req' = <<[req[1] EXCEPT
                    !.pc = "done",
                    !.result = Some([raised |-> FALSE, image |-> FALSE,
                                     status |-> "Max retries exceeded"])]>>
    /\ UNCHANGED <<pureVars, storeVars, dbVars>>

NextEditor == EditorGetModel \/ EditorAttempt \/ EditorLoopEnds

SpecEditor == InitEditor /\ [][NextEditor]_vars

\* the interpreter runs the call on: no step that can be taken is put off
\* for ever
SpecEditorFair == SpecEditor /\ WF_vars(NextEditor)

EditorDone == req[1].result # None

(* C23: for every behaviour of the external model (image, no image or any
   exception, on each call) edit_roi_patch calls the model at most max_retries
   times and then returns either (image, "success") or (None, status): it
   never raises and never loops for ever. *)
C23_EditorTerminates ==
    /\ [](Len(req[1].calls) <= editor_max_retries)
    /\ [](EditorDone /\ Len(req[1].calls) > 0 =>
              /\ ~req[1].result[1].raised
              /\ req[1].result[1].image <=> req[1].result[1].status = "success")
    /\ [](req[1].pc = "loop" => <>EditorDone)

\* the model raised an error of no kind looked for on each of three calls and
\* the call returned (None, status)
C23_Witness ==
    /\ EditorDone
    /\ Len(req[1].calls) = editor_max_retries
    /\ \A k \in 1..Len(req[1].calls) :
          req[1].calls[k] = [kind |-> "error", mentions |-> {}]
    /\ ~req[1].result[1].raised /\ ~req[1].result[1].image


\* the behaviour the model showed on the last call made so far
LastCall == req[1].calls[Len(req[1].calls)]

\* the message of the error names the thought signature
SessionError(behaviour) ==
    behaviour.kind = "error" /\ behaviour.mentions \cap {"thought", "signature"} # {}

\* the message of the error names the rate limit or the quota
RateLimitError(behaviour) ==
    behaviour.kind = "error" /\ behaviour.mentions \cap {"rate", "quota"} # {}

(* C24: within one call of edit_roi_patch a further model call is made only
   after a failure whose message indicates a thought or signature (session)
   error; any other exception ends the call on the attempt where it occurs,
   with no further model call. *)
C24_RetriesOnlySessionErrors ==
    [][(Len(req'[1].calls) > Len(req[1].calls) /\ req[1].calls # << >>)
          => SessionError(LastCall)]_vars


\* a step of the call in which the model was called and showed the behaviour
\* that is now the last one recorded
ModelCalled == Len(req'[1].calls) > Len(req[1].calls)

\* the call returned (None, "Rate limited: ...") in this step
ReturnsRateLimited ==
    /\ req'[1].result # None
    /\ req'[1].result[1] =
          [raised |-> FALSE, image |-> FALSE, status |-> "Rate limited"]

(* C25 as stated: a rate-limit or quota error from the model makes
   edit_roi_patch return (None, "Rate limited: ...") on the very attempt where
   it occurs, with no further model call, for every error message that
   indicates rate limiting or quota. *)
C25_RateLimitReturnsAtOnce_Original ==
    [][/\ (ModelCalled /\ RateLimitError(req'[1].calls[Len(req'[1].calls)]))
             => ReturnsRateLimited
       /\ EditorDone => req'[1].calls = req[1].calls]_vars

(* C25 amended: the same for every error message that indicates rate limiting
   or quota and names neither the thought nor the signature; a message that
   names one of these as well is handled as a session error: nothing is
   returned on that attempt and the loop goes on to the next one. *)
C25_RateLimitReturnsAtOnce ==
    [][/\ (/\ ModelCalled
           /\ RateLimitError(req'[1].calls[Len(req'[1].calls)])
           /\ ~SessionError(req'[1].calls[Len(req'[1].calls)]))
             => ReturnsRateLimited
       /\ (/\ ModelCalled
           /\ RateLimitError(req'[1].calls[Len(req'[1].calls)])
           /\ SessionError(req'[1].calls[Len(req'[1].calls)]))
             => /\ req'[1].result = None
                /\ req'[1].attempt = req[1].attempt + 1
       /\ EditorDone => req'[1].calls = req[1].calls]_vars

\* after a session error on the first call the model raised a quota error on
\* the second, and the call returned (None, "Rate limited") with two calls made
C25_Witness ==
    /\ EditorDone
    /\ Len(req[1].calls) = 2
    /\ req[1].calls[1] = [kind |-> "error", mentions |-> {"signature"}]
    /\ req[1].calls[2] = [kind |-> "error", mentions |-> {"quota"}]
    /\ req[1].result[1].status = "Rate limited"
    /\ req[1].attempt = 1


(***************************************************************************)
(* The worker tasks under the dispatcher.  A task is queued once; each     *)
(* execution runs the handler, and an execution that ends in self.retry    *)
(* queues the task again with request.retries one higher.  req keeps the   *)
(* task, request.retries, what each execution met and the final result.    *)
(***************************************************************************)
ocr_max_retries == 3
candidates_max_retries == 3

WorkerTasks ==
    {"process_page_ocr", "generate_issue_candidates", "apply_issue_correction"}

\* max_retries of the task decorators
max_retries(task) ==
    CASE task = "process_page_ocr" -> ocr_max_retries
      [] task = "generate_issue_candidates" -> candidates_max_retries
      [] task = "apply_issue_correction" -> task_max_retries

\* the words the handlers look for in str(e).lower(); an exception is given by
\* the set of these words its message contains, and req keeps for each
\* execution what it met: a return value or an exception
RetryKeywords == {"rate", "quota"}
TaskExceptions == SUBSET RetryKeywords

\* a handler that retries on every exception
ShouldRetry_Always(task, mentions) == TRUE

\* the test in front of self.retry: "rate" or "quota" in the two tasks with
\* max_retries 3, "rate" alone in apply_issue_correction
ShouldRetry(task, mentions) ==
    IF task = "apply_issue_correction"
    THEN "rate" \in mentions
    ELSE "rate" \in mentions \/ "quota" \in mentions

\* celery's Task.retry(exc=e): the task is queued again unless request.retries
\* has reached max_retries, and then exc is raised out of the task
self_retry(task, retries) ==
    IF retries < max_retries(task) THEN "requeued" ELSE "raised"

\* how an execution that caught an exception ends
AfterException(task, retries, mentions) ==
    IF ShouldRetry(task, mentions)
    THEN self_retry(task, retries)
    ELSE "error"

\* the request after an execution that caught an exception
Caught(r, mentions) ==
    LET end == AfterException(r.task, r.retries, mentions)
    IN  [r EXCEPT !.pc = IF end = "requeued" THEN "queued" ELSE "done",
                  !.retries = IF end = "requeued" THEN @ + 1 ELSE @,
                  !.met = Append(@, [outcome |-> "exception",
                                     mentions |-> mentions]),
                  !.result = IF end = "requeued" THEN None ELSE Some(end)]

\* the request after an execution that returned a dict with the given status
Returned(r, met, status) ==
    [r EXCEPT !.pc = "done",
              !.met = Append(@, [outcome |-> met, mentions |-> {}]),
              !.result = Some(status)]

InitTasks ==
    /\ IdlePure
    /\ page = GradientPage(SmallPageW, PageH)
    /\ page0 = page /\ patches = << >>
    /\ corrections = << >> /\ next_correction_id = 1
    /\ db_cascade = FALSE
    /\ \E task \in WorkerTasks :
         /\ req = <<[kind |-> "task_request", task |-> task, pc |-> "queued",
                     retries |-> 0, met |-> << >>, result |-> None]>>
         /\ IF task = "process_page_ocr"
            THEN /\ page_row = Some([ocr_status |-> "pending",
                                     ocr_result |-> None])
                 /\ issues = << >> /\ next_issue_id = 1
            ELSE /\ page_row = Some([ocr_status |-> "completed",
                                     ocr_result |-> None])
                 /\ issues \in {<<ReviewedIssue(bbox)>> : bbox \in ApplyBboxes}
                 /\ next_issue_id = 2

\* process_page_ocr up to its first commit: the page is marked processing
ProcessPageOcrStarts ==
    /\ req[1].task = "process_page_ocr" /\ req[1].pc = "queued"
    /\ page_row # None
    /\ page_row' = Some([page_row[1] EXCEPT !.ocr_status = "processing"])
    /\ req' = <<[req[1] EXCEPT !.pc = "running"]>>
    /\ UNCHANGED <<issues, corrections, next_issue_id, next_correction_id,
                   db_cascade, pureVars, storeVars>>

\* process_page_ocr from ocr_page to its return: the result and the issues
\* are saved, or the exception is caught, the page is marked failed and the
\* task retries or returns the error dict
ProcessPageOcrEnds ==
    /\ req[1].task = "process_page_ocr" /\ req[1].pc = "running"
    /\ \/ \E ocr_result \in OcrResults :
          \E found \in {detect_issues(ocr_result)} :
            /\ next_issue_id + Len(found) - 1 <= MaxIssueId
            /\ page_row' = Some([ocr_status |-> "completed",
                                 ocr_result |-> Some(ocr_result)])
            /\ issues' = InsertIssues(issues, found, next_issue_id)
            /\ next_issue_id' = next_issue_id + Len(found)
            /\ req' = <<Returned(req[1], "ok", "success")>>
       \/ \E mentions \in TaskExceptions :
            /\ page_row' = Some([page_row[1] EXCEPT !.ocr_status = "failed"])
            /\ req' = <<Caught(req[1], mentions)>>
            /\ UNCHANGED <<issues, next_issue_id>>
    /\ UNCHANGED <<corrections, next_correction_id, db_cascade, pureVars,
                   storeVars>>

\* generate_issue_candidates: the ROI cannot be extracted, or the generator
\* returns a list, or the call raises and the task retries or returns the
\* error dict
GenerateIssueCandidatesExecution ==
    /\ req[1].task = "generate_issue_candidates" /\ req[1].pc = "queued"
    /\ 1 \in DOMAIN issues
    /\ \/ /\ req' = <<Returned(req[1], "roi_error", "error")>>
          /\ UNCHANGED issues
       \/ \E candidates \in GeminiOutputs(issues[1].ocr_text) :
          \E issue \in {issues[1]} :
          \E adopt \in {evaluate_auto_adopt(issue.ocr_text, candidates,
                                             ConfidenceOrZero(issue))} :
            /\ issues' = [issues EXCEPT ![1] =
                             [issue EXCEPT
                                 !.candidates = Some(candidates),
                                 !.auto_correctable = adopt[1],
                                 !.status = "reviewing"]]
            /\ req' = <<Returned(req[1], "ok", "success")>>
       \/ \E mentions \in TaskExceptions :
            /\ req' = <<Caught(req[1], mentions)>>
            /\ UNCHANGED issues
    /\ UNCHANGED <<page_row, corrections, next_issue_id, next_correction_id,
                   db_cascade, pureVars, storeVars>>

\* apply_issue_correction: apply_correction returns and the Correction row
\* is committed, or it raises and the task retries or returns the error dict
ApplyIssueCorrectionExecution ==
    /\ req[1].task = "apply_issue_correction" /\ req[1].pc = "queued"
    /\ 1 \in DOMAIN issues
    /\ \/ \E corrected_text \in RequestTexts, method \in RequestMethods :
          \E run \in EditorRunsOf(method) :
          \E applied \in {apply_correction(page, patches, IssueBbox(issues[1]),
                                           corrected_text, method, 1,
                                           AiOutcomeOf(method, run))} :
            /\ page' = applied.page
            /\ patches' = applied.patches
            /\ corrections' =
                   InsertCorrection(corrections, next_correction_id,
                       CorrectionRow(1, method, corrected_text, applied))
            /\ issues' = [issues EXCEPT ![1].status = "corrected"]
            /\ next_correction_id' = next_correction_id + 1
            /\ req' = <<Returned(req[1], "ok", "success")>>
       \/ \E mentions \in TaskExceptions :
            /\ req' = <<Caught(req[1], mentions)>>
            /\ UNCHANGED <<page, patches, corrections, issues,
                           next_correction_id>>
    /\ UNCHANGED <<page0, page_row, next_issue_id, db_cascade, pureVars>>

NextTasks ==
    \/ ProcessPageOcrStarts
    \/ ProcessPageOcrEnds
    \/ GenerateIssueCandidatesExecution
    \/ ApplyIssueCorrectionExecution

SpecTasks == InitTasks /\ [][NextTasks]_vars

TaskDone == req[1].pc = "done"

\* the step is a re-dispatch of the task
Redispatched == req'[1].retries > req[1].retries

\* an execution ends in this step, having caught an exception
ExceptionCaught ==
    /\ Len(req'[1].met) > Len(req[1].met)
    /\ req'[1].met[Len(req'[1].met)].outcome = "exception"

\* the retry bounds the claim names
NamedRetries(task) ==
    CASE task = "process_page_ocr" -> 3
      [] task = "generate_issue_candidates" -> 3
      [] task = "apply_issue_correction" -> 2

\* C26: a worker task is queued again only by an execution that caught an
\* exception naming the rate limit or the quota, and at most 3, 3 and 2
\* times; an exception that names neither ends the task with the error
\* result and no retry; and whenever process_page_ocr has ended or waits for
\* a retry, the page's ocr_status is completed or failed, not processing.
C26_RetryDiscipline ==
    /\ [][/\ Redispatched =>
               /\ ExceptionCaught
               /\ req'[1].met[Len(req'[1].met)].mentions # {}
               /\ req'[1].retries = req[1].retries + 1
          /\ (ExceptionCaught /\ req'[1].met[Len(req'[1].met)].mentions = {}) =>
               /\ req'[1].pc = "done"
               /\ req'[1].result = Some("error")
               /\ ~Redispatched]_vars
    /\ [](req[1].retries <= NamedRetries(req[1].task))
    /\ []((req[1].task = "process_page_ocr" /\ req[1].pc # "running"
              /\ req[1].met # << >>)
            => page_row[1].ocr_status \in {"completed", "failed"})

\* process_page_ocr met the quota three times and then an error of another
\* kind: it was queued again three times and ended with the error result,
\* the page failed
C26_Witness ==
    /\ req[1].task = "process_page_ocr"
    /\ Len(req[1].met) = 4
    /\ \A k \in 1..4 : req[1].met[k].outcome = "exception"
    /\ <<req[1].met[1].mentions, req[1].met[2].mentions,
         req[1].met[3].mentions, req[1].met[4].mentions>>
           = <<{"quota"}, {"quota"}, {"rate", "quota"}, {}>>
    /\ req[1].retries = 3
    /\ req[1].result = Some("error")
    /\ page_row[1].ocr_status = "failed"


\* the head of an emitted issue: the first of the input issues merged into it
HeadOf(issue) == MinOf(MergedInto(issue))

\* the confidence of an input issue
InputConfidence(i) == req[1].issues[i].confidence[1]

(* C27: merge_nearby_issues partitions its input: the sets of input issues
   merged into the emitted issues are non-empty, disjoint and cover the
   input, and the text of an emitted issue starts with its head's; there are
   at most as many emitted issues as input issues; the emitted issues are in
   the input order of their heads; and the confidence of an emitted issue is
   the least confidence of the input issues merged into it. *)
C27_MergePartitions ==
    MergeDone =>
        LET in == req[1].issues
            out == req[1].result[1]
        IN  /\ Len(out) <= Len(in)
            /\ UNION {MergedInto(out[k]) : k \in 1..Len(out)} = 1..Len(in)
            /\ \A k \in 1..Len(out) :
                  /\ MergedInto(out[k]) # {}
                  /\ out[k].ocr_text[1] = in[HeadOf(out[k])].ocr_text[1]
                  /\ out[k].confidence =
                         Some(MinOf({InputConfidence(i) :
                                         i \in MergedInto(out[k])}))
            /\ \A k, l \in 1..Len(out) :
                  k < l => /\ MergedInto(out[k]) \cap MergedInto(out[l]) = {}
                           /\ HeadOf(out[k]) < HeadOf(out[l])

\* the first and the third input issue were merged and the second, far away,
\* was emitted after them on its own; the merged issue has the confidence of
\* the third, the lower one
C27_Witness ==
    /\ MergeDone
    /\ Len(req[1].issues) = 3 /\ Len(req[1].result[1]) = 2
    /\ MergedInto(req[1].result[1][1]) = {1, 3}
    /\ MergedInto(req[1].result[1][2]) = {2}
    /\ req[1].result[1][1].confidence = Some(InputConfidence(3))
    /\ InputConfidence(3) < InputConfidence(1)


\* an issue placed on a box
WithBbox(issue, box) ==
    [issue EXCEPT !.bbox_x = box.x, !.bbox_y = box.y,
                  !.bbox_width = box.width, !.bbox_height = box.height]

\* the list has three issues A, B, C with B nearby A and C nearby the union
\* bbox of A and B but not nearby A
GrowthCase ==
    /\ Len(req[1].issues) = 3
    /\ LET A == req[1].issues[1]
           B == req[1].issues[2]
           C == req[1].issues[3]
       IN  /\ bboxes_nearby(A, B, req[1].threshold)
           /\ ~bboxes_nearby(A, C, req[1].threshold)
           /\ bboxes_nearby(WithBbox(A, BoundingBox({1, 2})), C,
                            req[1].threshold)

(* C28: for issues A, B, C in input order where B is nearby A and C is not
   nearby A alone but is nearby the union bbox of A and B, merge_nearby_issues
   emits a single issue that contains all three: the nearby test of a later
   issue is made against the bbox the accumulator has after its merges. *)
C28_AccumulatorGrows ==
    (MergeDone /\ GrowthCase) =>
        /\ Len(req[1].result[1]) = 1
        /\ MergedInto(req[1].result[1][1]) = {1, 2, 3}
        /\ IssueBbox(req[1].result[1][1]) = BoundingBox({1, 2, 3})

\* the case happened at the default threshold with a third issue that lies
\* to the right of the first two
C28_Witness ==
    /\ MergeDone /\ GrowthCase
    /\ req[1].threshold = merge_threshold
    /\ req[1].issues[3].bbox_x
           >= BoundingBox({1, 2}).x + BoundingBox({1, 2}).width
    /\ Len(req[1].result[1]) = 1


\* the bboxes of a list of issues
BboxesOf(list) == [k \in 1..Len(list) |-> IssueBbox(list[k])]

\* the statement as claimed: merging the output again changes no bbox
C29_MergeIdempotent_Original ==
    MergeDone =>
        BboxesOf(merge_nearby_issues(req[1].result[1], req[1].threshold))
            = BboxesOf(req[1].result[1])

\* the members of the emitted issue out[k] that precede input issue m: what
\* its accumulator held when the inner loop came to m
MembersBefore(k, m) == {i \in MergedInto(req[1].result[1][k]) : i < m}

(* C29: merge_nearby_issues is one greedy pass: every input issue merged
   into an emitted issue was not nearby the accumulator of any issue emitted
   earlier when that accumulator came to it, that is, not nearby the bounding
   box of the members of the earlier issue that precede it in the input.  Two
   emitted issues can still be nearby each other, and merging the output
   again then changes the bboxes. *)
C29_GreedyPassSeparates ==
    MergeDone =>
        LET in == req[1].issues
            out == req[1].result[1]
        IN  \A k, l \in 1..Len(out) : \A m \in MergedInto(out[l]) :
                k < l =>
                    /\ MembersBefore(k, m) # {}
                    /\ ~bboxes_nearby(
                           WithBbox(in[1], BoundingBox(MembersBefore(k, m))),
                           in[m], req[1].threshold)

\* the pass emitted two issues that are nearby each other: the first one grew
\* towards the second after passing it, and a second pass merges them
C29_Witness ==
    /\ MergeDone
    /\ Len(req[1].issues) = 3 /\ Len(req[1].result[1]) = 2
    /\ MergedInto(req[1].result[1][1]) = {1, 3}
    /\ bboxes_nearby(req[1].result[1][1], req[1].result[1][2],
                     req[1].threshold)
    /\ Len(merge_nearby_issues(req[1].result[1], req[1].threshold)) = 1


(***************************************************************************)
(* SpecDetectPage: detect_page_issues on a page whose OCR result holds one *)
(* or two blocks                                                           *)
(***************************************************************************)
\* blocks of garbled glyphs, of digits, of a mixed and of a plain text, read
\* with low and with high confidence, two of the places next to each other
\* and one far from them
PageBlocks ==
    {[text |-> t, confidence |-> c, bbox |-> b] :
        t \in {<<"<25A1>", "<25A1>">>, <<"1", "2", "3", "4">>,
               <<"a", "<25A1>">>, <<"a", "b">>},
        c \in {60, 90},
        b \in {[x |-> 1, y |-> 0, width |-> 2, height |-> 1],
               [x |-> 5, y |-> 0, width |-> 3, height |-> 1],
               [x |-> 60, y |-> 1, width |-> 2, height |-> 1]}}

InitDetectPage ==
    /\ IdlePure
    /\ page = GradientPage(SmallPageW, PageH)
    /\ page0 = page /\ patches = << >>
    /\ page_row \in {Some([ocr_status |-> "completed", ocr_result |-> Some(r)]) :
                        r \in UNION {[1..n -> PageBlocks] : n \in 1..2}}
    /\ issues = << >> /\ corrections = << >>
    /\ next_issue_id = 1 /\ next_correction_id = 1
    /\ db_cascade \in BOOLEAN
    /\ req = << >>

NextDetectPage == DetectPageIssues

SpecDetectPage == InitDetectPage /\ [][NextDetectPage]_vars

(* C30: after detect_page_issues has run detect_issues and then
   merge_nearby_issues and saved the result, no issue of the page whose
   ocr_text matches a sensitive pattern has auto_correctable true. *)
C30_MergedSensitiveNotAutoCorrectable ==
    [][DetectPageIssues =>
          \A id \in DOMAIN issues' :
              contains_sensitive_pattern(issues'[id].ocr_text)
                  => ~issues'[id].auto_correctable]_vars


(* C31: for every image, bbox and margin, the ROI returned by
   extract_roi_with_margin has width at most max_roi_width and height at most
   max_roi_height. *)
C31_RoiWithinCap ==
    RoiDone =>
        /\ req[1].result[1].adjusted_bbox.width <= max_roi_width
        /\ req[1].result[1].adjusted_bbox.height <= max_roi_height


\* the bbox lies inside the image and is no larger than the ROI cap
TargetFits ==
    LET b == req[1].bbox IN
    /\ 0 <= b.x /\ b.x + b.width <= req[1].size.width
    /\ 0 <= b.y /\ b.y + b.height <= req[1].size.height
    /\ b.width <= max_roi_width /\ b.height <= max_roi_height

(* C32: for every bbox that lies inside the image and whose width and height
   do not exceed max_roi_width and max_roi_height, the ROI returned by
   extract_roi_with_margin contains the whole bbox: original_bbox_offset.x
   and .y are at least 0, offset.x + bbox.width is at most the ROI width and
   offset.y + bbox.height at most the ROI height. *)
C32_RoiContainsTarget ==
    (RoiDone /\ TargetFits) =>
        LET a == req[1].result[1].adjusted_bbox
            b == req[1].bbox
        IN  /\ a.original_bbox_offset.x >= 0
            /\ a.original_bbox_offset.y >= 0
            /\ a.original_bbox_offset.x + b.width <= a.width
            /\ a.original_bbox_offset.y + b.height <= a.height


\* request i is an apply that has overwritten the stored page
Overwrote(i) == req[i].kind = "apply" /\ req[i].pc \in {"commit", "done"}

(* C33: in every execution of apply_correction the pre-edit ROI is saved as
   the before patch before the stored page is overwritten: an apply that is
   about to write the page or has written it has a before patch of its issue
   in storage, and the stored page differs from the page at the start only
   when some request has written it. *)
C33_BeforePatchPrecedesOverwrite ==
    /\ \A i \in 1..NumRequests :
          (req[i].kind = "apply" /\ req[i].pc \in {"paste", "save", "commit", "done"})
              => Stored(patches, BeforePath(req[i].issue_id))
    /\ page # page0 => \E i \in 1..NumRequests : req[i].pc \in {"commit", "done"}

\* an apply on the first issue has overwritten the page and its Correction row
\* is not yet committed; the before patch holds the ROI of the page as it was
C33_Witness ==
    /\ Overwrote(1) /\ req[1].pc = "commit" /\ req[1].issue_id = 1
    /\ req[2].pc = "idle"
    /\ page # page0
    /\ corrections = << >>
    /\ Stored(patches, BeforePath(1))
    /\ patches[BeforePath(1)]
           = extract_roi_with_margin(page0, LeftBbox, roi_margin).roi


(***************************************************************************)
(* SpecApplyFaults: applies on one issue through the three callers of      *)
(* apply_correction, up to one in which apply_correction raises            *)
(***************************************************************************)
\* the steps of apply_correction at which an exception may come up: the ROI
\* extraction, the saving of the before patch, the rendering, the saving of
\* the after patch, the pasting and the saving of the page
ApplyFaults ==
    {"roi_error", "before_save_error", "render_error", "after_save_error",
     "paste_error", "page_save_error"}

\* the mutant: the page is written although its saving raises
apply_correction_under_WritesFirst(pg, files, issue_bbox, corrected_text, method, issue_id, ai, fault) ==
    [page |-> IF fault = "page_save_error"
              THEN apply_correction(pg, files, issue_bbox, corrected_text,
                                    method, issue_id, ai).page
              ELSE pg,
     patches |-> files]

\* the storage after an apply_correction that raises at the given step: what
\* was saved before the step stays saved
apply_correction_under(pg, files, issue_bbox, corrected_text, method, issue_id, ai, fault) ==
    CASE fault = "roi_error" -> [page |-> pg, patches |-> files]
      [] fault = "before_save_error" ->
             [page |-> pg, patches |-> SaveBytesRaises(files)]
      [] fault \in {"render_error", "after_save_error"} ->
             [page |-> pg,
              patches |-> SaveBytes(files, BeforePath(issue_id),
                              extract_roi_with_margin(pg, issue_bbox,
                                                      roi_margin).roi)]
      [] fault = "paste_error" ->
             [page |-> pg,
              patches |-> apply_correction(pg, files, issue_bbox, corrected_text,
                                           method, issue_id, ai).patches]
      [] fault = "page_save_error" ->
             [page |-> SaveBytesRaises(pg),
              patches |-> apply_correction(pg, files, issue_bbox, corrected_text,
                                           method, issue_id, ai).patches]

\* create_correction when apply_correction raises: the response is the
\* HTTPException raised in the except block
CreateCorrectionFails ==
    \E issue_id \in 1..MaxIssueId, corrected_text \in RequestTexts,
       method \in {"text_overlay", "nano_banana"}, fault \in ApplyFaults :
      \E ai \in AiOutcomes(method) :
        /\ req = << >>
        /\ issue_id \in DOMAIN issues
        /\ \E failed \in {apply_correction_under(page, patches,
                              IssueBbox(issues[issue_id]), corrected_text,
                              method, issue_id, ai, fault)} :
              /\ page' = failed.page
              /\ patches' = failed.patches
        /\ req' = <<[kind |-> "apply_failed", via |-> "create_correction",
                     issue_ids |-> <<issue_id>>, failed_at |-> 1,
                     method |-> method, ai |-> ai, fault |-> fault,
                     answer |-> "500"]>>
        /\ UNCHANGED <<page0, pureVars, dbVars>>

\* the list without its k-th element
RemoveAt(seq, k) ==
    [i \in 1..(Len(seq) - 1) |-> IF i < k THEN seq[i] ELSE seq[i + 1]]

\* the state batch_apply_corrections has reached after the ids before position
\* k, when apply_correction raises for the id at position failed_at
RECURSIVE BatchApplyUnder(_, _, _, _, _, _, _)
BatchApplyUnder(st, issue_ids, k, method, ai, failed_at, fault) ==
    IF k > Len(issue_ids) THEN st
    ELSE LET issue_id == issue_ids[k] IN
         IF \/ issue_id \notin DOMAIN st.issues
            \/ ~st.issues[issue_id].auto_correctable
            \/ ~HasCandidates(st.issues[issue_id])
         THEN BatchApplyUnder(st, issue_ids, k + 1, method, ai, failed_at, fault)
         ELSE IF k = failed_at
         THEN LET issue == st.issues[issue_id]
                  failed == apply_correction_under(st.page, st.patches,
                                IssueBbox(issue), issue.candidates[1][1].text,
                                method, issue_id, ai, fault)
              IN  BatchApplyUnder([st EXCEPT !.page = failed.page,
                                             !.patches = failed.patches],
                                  issue_ids, k + 1, method, ai, failed_at, fault)
         ELSE LET issue == st.issues[issue_id]
                  corrected_text == issue.candidates[1][1].text
                  applied == apply_correction(st.page, st.patches,
                                 IssueBbox(issue), corrected_text, method,
                                 issue_id, ai)
              IN  BatchApplyUnder(
                      [page |-> applied.page,
                       patches |-> applied.patches,
                       corrections |->
                           InsertCorrection(st.corrections, st.next_correction_id,
                               CorrectionRow(issue_id, method, corrected_text,
                                             applied)),
                       issues |-> [st.issues EXCEPT ![issue_id].status = "corrected"],
                       next_correction_id |-> st.next_correction_id + 1],
                      issue_ids, k + 1, method, ai, failed_at, fault)

\* the database and the storage as one record
DbAndStorage ==
    [page |-> page, patches |-> patches, corrections |-> corrections,
     issues |-> issues, next_correction_id |-> next_correction_id]

\* batch_apply_corrections when apply_correction raises for one of the ids:
\* the exception is caught, the id is reported with status error and the loop
\* goes on
BatchApplyFails ==
    \E issue_ids \in UNION {[1..n -> 1..MaxIssueId] : n \in 1..MaxBatch},
       method \in RequestMethods, fault \in ApplyFaults :
      \E failed_at \in 1..Len(issue_ids), ai \in AiOutcomes(method) :
        /\ req = << >>
        /\ issue_ids[failed_at] \in DOMAIN issues
        /\ issues[issue_ids[failed_at]].auto_correctable
        /\ HasCandidates(issues[issue_ids[failed_at]])
        /\ \E done \in {BatchApplyUnder(DbAndStorage, issue_ids, 1, method, ai,
                                        failed_at, fault)} :
            /\ done.next_correction_id <= MaxCorrections + 1
            /\ page' = done.page
            /\ patches' = done.patches
            /\ corrections' = done.corrections
            /\ issues' = done.issues
            /\ next_correction_id' = done.next_correction_id
        /\ req' = <<[kind |-> "apply_failed", via |-> "batch_apply_corrections",
                     issue_ids |-> issue_ids, failed_at |-> failed_at,
                     method |-> method, ai |-> ai, fault |-> fault,
                     answer |-> "error"]>>
        /\ UNCHANGED <<page0, page_row, next_issue_id, db_cascade, pureVars>>

\* apply_issue_correction when apply_correction raises: the task asks for a
\* retry or returns the error dict
ApplyIssueCorrectionFails ==
    \E issue_id \in 1..MaxIssueId, corrected_text \in RequestTexts,
       method \in RequestMethods, fault \in ApplyFaults,
       mentions \in TaskExceptions :
      \E ai \in AiOutcomes(method) :
        /\ req = << >>
        /\ issue_id \in DOMAIN issues
        /\ \E failed \in {apply_correction_under(page, patches,
                              IssueBbox(issues[issue_id]), corrected_text,
                              method, issue_id, ai, fault)} :
              /\ page' = failed.page
              /\ patches' = failed.patches
        /\ req' = <<[kind |-> "apply_failed", via |-> "apply_issue_correction",
                     issue_ids |-> <<issue_id>>, failed_at |-> 1,
                     method |-> method, ai |-> ai, fault |-> fault,
                     answer |-> IF ShouldRetry("apply_issue_correction", mentions)
                                THEN "retry" ELSE "error"]>>
        /\ UNCHANGED <<page0, pureVars, dbVars>>

\* the requests that go through, up to the first one that fails
CreateCorrectionApplies == req = << >> /\ ClientCreateCorrection
BatchApplyApplies == req = << >> /\ ClientBatchApply
ApplyIssueCorrectionApplies == req = << >> /\ WorkerApplyCorrection

NextApplyFaults ==
    \/ CreateCorrectionApplies
    \/ BatchApplyApplies
    \/ ApplyIssueCorrectionApplies
    \/ CreateCorrectionFails
    \/ BatchApplyFails
    \/ ApplyIssueCorrectionFails

SpecApplyFaults == InitCorrections /\ [][NextApplyFaults]_vars

\* the step is a request in which apply_correction raised
ApplyFailed == req' # << >> /\ req' # req

\* what the request of the step would have done had the id for which
\* apply_correction raised not been in it
WithoutFailedId ==
    BatchApply(DbAndStorage, RemoveAt(req'[1].issue_ids, req'[1].failed_at), 1,
               req'[1].method, req'[1].ai)

(* C34: if apply_correction raises at any step (ROI extraction, patch save,
   rendering, page save), the request leaves the stored page image, the
   Correction rows and the status of the issue as they were, through
   create_correction and apply_issue_correction; through the batch endpoint
   the id for which it raised contributes nothing: the page, the rows and the
   issues are those the other ids of the request give. *)
C34_FailedApplyChangesNothing ==
    [][ApplyFailed =>
          /\ page' = WithoutFailedId.page
          /\ corrections' = WithoutFailedId.corrections
          /\ issues' = WithoutFailedId.issues
          /\ Len(req'[1].issue_ids) = 1 =>
                /\ page' = page
                /\ corrections' = corrections
                /\ issues' = issues]_vars

\* a second apply on the corrected issue raised when it saved the page: the
\* page is still the one the first correction left and there is one row
C34_Witness ==
    /\ req # << >>
    /\ req[1].fault = "page_save_error"
    /\ req[1].via = "create_correction"
    /\ page # page0
    /\ DOMAIN corrections = {1}
    /\ issues[1].status = "corrected"


\* the ROI of the issue of the first Correction row on the page as it was
\* before any correction
FirstRoiBefore ==
    extract_roi_with_margin(page0, IssueBbox(issues[corrections[1].issue_id]),
                            roi_margin).roi

(* C35: for every Correction row, the bytes stored at its patch_before_path
   stay equal to the ROI content as it was immediately before that
   correction was applied, whatever operations follow; stated for the first
   correction made on the page, whose ROI content before it is that of the
   page at the start. *)
C35_OwnBeforePatchKept ==
    (/\ 1 \in DOMAIN corrections
     /\ corrections[1].issue_id \in DOMAIN issues
     /\ Stored(patches, corrections[1].patch_before_path))
        => patches[corrections[1].patch_before_path] = FirstRoiBefore


(* C36: in every reachable state an issue has status corrected if and only
   if it has at least one Correction row with applied = true. *)
C36_StatusAgreesWithRows ==
    \A issue_id \in DOMAIN issues :
        issues[issue_id].status = "corrected"
            <=> AppliedCorrections(issue_id) # {}


(***************************************************************************)
(* SpecUndo: applies and undo requests on one issue, every undo request    *)
(* with its answer                                                         *)
(***************************************************************************)
\* the mutant: an undo is accepted whatever the applied flag says
UndoAccepted_Always(correction) == TRUE

\* the test behind the 400 answer of undo_correction_endpoint
UndoAccepted(correction) == correction.applied

\* the answer to an undo request and the database after it
UndoAnswer(status_code, rows, issue_rows, pg) ==
    [status_code |-> status_code, corrections |-> rows, issues |-> issue_rows,
     page |-> pg]

\* undo_correction_endpoint from its first statement to its return or to the
\* HTTPException it raises
undo_correction_endpoint(correction_id) ==
    IF correction_id \notin DOMAIN corrections
    THEN UndoAnswer(404, corrections, issues, page)
    ELSE IF ~UndoAccepted(corrections[correction_id])
    THEN UndoAnswer(400, corrections, issues, page)
    ELSE LET correction == corrections[correction_id]
             undone == undo_correction(page, patches,
                           correction.patch_before_path,
                           IssueBbox(issues[correction.issue_id]))
         IN  IF ~undone.ok
             THEN UndoAnswer(500, corrections, issues, page)
             ELSE UndoAnswer(200,
                      [corrections EXCEPT ![correction_id].applied = FALSE],
                      [issues EXCEPT ![correction.issue_id].status = "reviewing"],
                      undone.page)

\* an undo request for any correction id, known or not
UndoRequest ==
    \E correction_id \in 1..(MaxCorrections + 1) :
    \E answer \in {undo_correction_endpoint(correction_id)} :
        /\ page' = answer.page
        /\ corrections' = answer.corrections
        /\ issues' = answer.issues
        /\ req' = <<[kind |-> "undo", correction_id |-> correction_id,
                     status_code |-> answer.status_code]>>
        /\ UNCHANGED <<page0, patches, page_row, next_issue_id,
                       next_correction_id, db_cascade, pureVars>>

NextUndo ==
    \/ ClientCreateCorrection
    \/ UndoRequest

SpecUndo == InitCorrections /\ [][NextUndo]_vars

\* the step is an undo request for a Correction row whose applied flag is
\* false
UndoOfUnapplied ==
    /\ UndoRequest
    /\ req'[1].correction_id \in DOMAIN corrections
    /\ ~corrections[req'[1].correction_id].applied

(* C37: an undo request for a Correction whose applied flag is false is
   rejected and changes neither the page image, the Correction rows nor the
   issues; so a second undo of a correction that was undone has no effect. *)
C37_UndoOnlyIfApplied ==
    [][UndoOfUnapplied =>
          /\ req'[1].status_code = 400
          /\ page' = page
          /\ patches' = patches
          /\ corrections' = corrections
          /\ issues' = issues]_vars

\* the first correction was undone, the issue was corrected again, and a
\* second undo of the first correction was answered 400: the second
\* correction is still applied and the issue still corrected
C37_Witness ==
    /\ req # << >>
    /\ req[1].correction_id = 1 /\ req[1].status_code = 400
    /\ DOMAIN corrections = {1, 2}
    /\ ~corrections[1].applied /\ corrections[2].applied
    /\ issues[1].status = "corrected"
    /\ page # page0


(***************************************************************************)
(* SpecCandidates: GeminiService.generate_candidates on bounded responses  *)
(* of the model                                                            *)
(***************************************************************************)
MaxResponseItems == 3   \* elements of the JSON array in a response

\* an element of the JSON array of a response: a dict with "text" whose
\* "confidence" is a number, is absent, is a string float() rejects or is
\* null; a dict without "text"; a value that is no dict
ResponseItems ==
    {[shape |-> "candidate", confidence |-> "number", value |-> v] :
        v \in {30, 50, 95}}
    \cup {[shape |-> "candidate", confidence |-> c, value |-> 0] :
            c \in {"absent", "word", "null"}}
    \cup {[shape |-> s, confidence |-> "absent", value |-> 0] :
            s \in {"no_text", "not_dict"}}

\* what model.generate_content gives: an exception, a text without a JSON
\* array that parses, or a text with a JSON array
ModelResponses ==
    {[kind |-> "api_error", items |-> << >>],
     [kind |-> "no_json", items |-> << >>]}
    \cup {[kind |-> "json", items |-> items] :
            items \in UNION {[1..n -> ResponseItems] :
                                n \in 0..MaxResponseItems}}

\* the text of the k-th element of a response
ItemText(k) == <<<<"a">>, <<"b">>, <<"c">>, <<"d">>>>[k]

\* the dicts with "text" of an array, normalized, in the order of the array
RECURSIVE ValidCandidates(_, _)
ValidCandidates(items, k) ==
    IF k > Len(items) THEN << >>
    ELSE IF items[k].shape # "candidate" THEN ValidCandidates(items, k + 1)
    ELSE <<[text |-> ItemText(k),
            confidence |-> IF items[k].confidence = "number"
                           THEN items[k].value ELSE 50]>>
         \o ValidCandidates(items, k + 1)

\* the exception float() raises first in the loop over the array, if any
RECURSIVE FirstFloatError(_, _)
FirstFloatError(items, k) ==
    IF k > Len(items) THEN "none"
    ELSE IF items[k].shape = "candidate" /\ items[k].confidence = "word"
         THEN "ValueError"
    ELSE IF items[k].shape = "candidate" /\ items[k].confidence = "null"
         THEN "TypeError"
    ELSE FirstFloatError(items, k + 1)

\* the descending list with candidate c put in front of the first candidate
\* whose confidence is not greater
RECURSIVE InsertByConfidence(_, _)
InsertByConfidence(sorted, c) ==
    IF sorted = << >> THEN <<c>>
    ELSE IF sorted[1].confidence <= c.confidence THEN <<c>> \o sorted
    ELSE <<sorted[1]>> \o InsertByConfidence(Tail(sorted), c)

\* the mutant: the candidates are returned in the order of the response
SortByConfidence_Unsorted(list, k) == SubSeq(list, k, Len(list))

\* sorted(list, key=confidence, reverse=True) from element k onwards:
\* descending, equal confidences in the order of the list
RECURSIVE SortByConfidence(_, _)
SortByConfidence(list, k) ==
    IF k > Len(list) THEN << >>
    ELSE InsertByConfidence(SortByConfidence(list, k + 1), list[k])

\* the candidate the parser returns when it finds no candidates: the text of
\* the response, confidence 0.5
UnparsedCandidate == [text |-> <<"r", "e", "s", "p">>, confidence |-> 50]

\* _parse_candidates_response: the list it returns, or the exception that
\* leaves it
parse_candidates_response(response) ==
    IF response.kind = "no_json"
    THEN [raised |-> FALSE, list |-> <<UnparsedCandidate>>]
    ELSE LET error == FirstFloatError(response.items, 1)
             valid == ValidCandidates(response.items, 1)
         IN  IF error = "TypeError" THEN [raised |-> TRUE, list |-> << >>]
             ELSE IF error = "ValueError" \/ valid = << >>
             THEN [raised |-> FALSE, list |-> <<UnparsedCandidate>>]
             ELSE [raised |-> FALSE, list |-> SortByConfidence(valid, 1)]

\* GeminiService.generate_candidates: every exception of the call and of the
\* parsing gives the one candidate with the OCR text and confidence 0.5
generate_candidates(ocr_text, response) ==
    IF response.kind = "api_error" THEN <<[text |-> ocr_text, confidence |-> 50]>>
    ELSE LET parsed == parse_candidates_response(response)
         IN  IF parsed.raised THEN <<[text |-> ocr_text, confidence |-> 50]>>
             ELSE parsed.list

InitCandidates ==
    /\ IdlePure /\ IdleStore /\ IdleDb
    /\ req \in {<<[kind |-> "generate_candidates",
                   ocr_text |-> <<"<25A1>", "<25A1>">>,
                   response |-> response, result |-> None]>> :
                   response \in ModelResponses}

GenerateCandidates ==
    /\ req # << >> /\ req[1].kind = "generate_candidates"
    /\ req[1].result = None
    /\ req' = <<[req[1] EXCEPT
                    !.result = Some(generate_candidates(req[1].ocr_text,
                                                        req[1].response))]>>
    /\ UNCHANGED <<pureVars, storeVars, dbVars>>

NextCandidates == GenerateCandidates

SpecCandidates == InitCandidates /\ [][NextCandidates]_vars

CandidatesDone ==
    req # << >> /\ req[1].kind = "generate_candidates" /\ req[1].result # None

(* C38: every list generate_candidates returns, its fallbacks for an error
   and for a response it cannot parse included, is non-empty and sorted by
   confidence in descending order, so the candidate at index 0 has the
   greatest confidence of the list. *)
C38_CandidatesRanked ==
    CandidatesDone =>
        LET list == req[1].result[1] IN
        /\ Len(list) >= 1
        /\ \A k \in 1..(Len(list) - 1) :
              list[k].confidence >= list[k + 1].confidence
        /\ \A k \in 1..Len(list) : list[1].confidence >= list[k].confidence

\* a response listed three candidates with the most confident one in the
\* middle, and it came out first
C38_Witness ==
    /\ CandidatesDone
    /\ req[1].response.kind = "json"
    /\ Len(req[1].response.items) = 3
    /\ \A k \in 1..3 : req[1].response.items[k].confidence = "number"
    /\ <<req[1].response.items[1].value, req[1].response.items[2].value,
         req[1].response.items[3].value>> = <<30, 95, 50>>
    /\ req[1].result[1] = <<[text |-> <<"b">>, confidence |-> 95],
                            [text |-> <<"c">>, confidence |-> 50],
                            [text |-> <<"a">>, confidence |-> 30]>>


(***************************************************************************)
(* SpecBatch: detection, candidate generation and the two batch            *)
(* operations on one page.  req is the queue of the apply_issue_correction *)
(* tasks batch_auto_correct has dispatched and no worker has run yet.      *)
(***************************************************************************)
MaxQueued == 2   \* apply_issue_correction tasks in the queue

\* a further list the generator may return: its best candidate is a long
\* number
SensitiveOutputs ==
    {<<[text |-> <<"1", "2", "3", "4">>, confidence |-> 95]>>}

\* the ids batch_auto_correct selects among the ids from k on: auto_correctable,
\* candidates not null, status detected or reviewing
RECURSIVE AutoCorrectable(_, _)
AutoCorrectable(rows, k) ==
    IF k > MaxIssueId THEN << >>
    ELSE IF /\ k \in DOMAIN rows
            /\ rows[k].auto_correctable
            /\ rows[k].candidates # None
            /\ rows[k].status \in {"detected", "reviewing"}
         THEN <<k>> \o AutoCorrectable(rows, k + 1)
         ELSE AutoCorrectable(rows, k + 1)

\* the calls apply_issue_correction.delay(issue_id, candidates[0]["text"],
\* method) of batch_auto_correct for the selected ids from position k on
RECURSIVE Dispatched(_, _, _, _)
Dispatched(rows, selected, k, method) ==
    IF k > Len(selected) THEN << >>
    ELSE IF Len(rows[selected[k]].candidates[1]) > 0
         THEN <<[kind |-> "apply_issue_correction",
                 issue_id |-> selected[k],
                 corrected_text |-> rows[selected[k]].candidates[1][1].text,
                 method |-> method]>>
              \o Dispatched(rows, selected, k + 1, method)
         ELSE Dispatched(rows, selected, k + 1, method)

\* worker/tasks/correction_task.py batch_auto_correct
BatchAutoCorrect ==
    \E method \in LifecycleMethods :
        /\ page_row # None
        /\ \E tasks \in {Dispatched(issues, AutoCorrectable(issues, 1), 1,
                                    method)} :
           /\ tasks # << >>
           /\ Len(req) + Len(tasks) <= MaxQueued
           /\ req' = req \o tasks
        /\ UNCHANGED <<pureVars, storeVars, dbVars>>

\* a worker runs one of the queued apply_issue_correction tasks: an issue that
\* is gone ends the task, any other issue gets the queued text
QueuedApplyIssueCorrection ==
    \E k \in 1..Len(req) :
      \E task \in {req[k]} :
        /\ req' = RemoveAt(req, k)
        /\ IF task.issue_id \notin DOMAIN issues
           THEN UNCHANGED <<storeVars, dbVars>>
           ELSE /\ next_correction_id <= MaxCorrections
                /\ \E issue \in {issues[task.issue_id]} :
                   \E applied \in {apply_correction(page, patches,
                                       IssueBbox(issue), task.corrected_text,
                                       task.method, task.issue_id, "none")} :
                      /\ page' = applied.page
                      /\ patches' = applied.patches
                      /\ corrections' =
                            InsertCorrection(corrections, next_correction_id,
                                CorrectionRow(task.issue_id, task.method,
                                              task.corrected_text, applied))
                      /\ issues' = [issues EXCEPT
                                       ![task.issue_id].status = "corrected"]
                /\ next_correction_id' = next_correction_id + 1
                /\ UNCHANGED <<page0, page_row, next_issue_id, db_cascade>>
        /\ UNCHANGED pureVars

BatchGenerateCandidatesApi == api_generate_candidates(SensitiveOutputs)
BatchGenerateIssueCandidates == generate_issue_candidates(SensitiveOutputs)
BatchApplyRequest == batch_apply_corrections(LifecycleMethods, MaxCorrections)

InitBatch ==
    /\ IdlePure
    /\ page = GradientPage(SmallPageW, PageH)
    /\ page0 = GradientPage(SmallPageW, PageH)
    /\ patches = << >>
    /\ page_row = Some([ocr_status |-> "pending", ocr_result |-> None])
    /\ issues = << >> /\ corrections = << >>
    /\ next_issue_id = 1 /\ next_correction_id = 1
    /\ db_cascade = TRUE
    /\ req = << >>

NextBatch ==
    \/ ProcessPageOcr
    \/ DetectPageIssues
    \/ BatchGenerateCandidatesApi
    \/ BatchGenerateIssueCandidates
    \/ BatchApplyRequest
    \/ BatchAutoCorrect
    \/ QueuedApplyIssueCorrection

SpecBatch == InitBatch /\ [][NextBatch]_vars

\* the correction rows the step adds
NewRows == DOMAIN corrections' \ DOMAIN corrections

\* the issue is one a batch operation takes, and the text is its first
\* candidate; neither the OCR text nor the text is sensitive
BatchEligible(issue, text) ==
    /\ issue.auto_correctable
    /\ HasCandidates(issue)
    /\ text = issue.candidates[1][1].text
    /\ ~contains_sensitive_pattern(issue.ocr_text)
    /\ ~contains_sensitive_pattern(text)

\* the step is a batch_apply_corrections request
BatchRequestStep == NewRows # {} /\ req' = req

\* the step is a worker's run of a queued apply_issue_correction task that
\* applied its text
QueuedApplyStep == NewRows # {} /\ Len(req') < Len(req)

\* the step is a batch_auto_correct run
DispatchStep == Len(req') > Len(req)

(* C39 as stated: every correction a batch operation applies, the ones
   batch_auto_correct applies through its queued tasks included, belongs to
   an issue that has auto_correctable = true and non-empty candidates, uses
   candidates[0], and neither the OCR text nor the applied text is
   sensitive. *)
C39_BatchNeverSensitive_Original ==
    [][(BatchRequestStep \/ QueuedApplyStep) =>
         \A c \in NewRows :
            BatchEligible(issues[corrections'[c].issue_id],
                          corrections'[c].corrected_text)]_vars

(* C39: every correction batch_apply_corrections applies, and every task
   batch_auto_correct dispatches, is for an issue that at that moment has
   auto_correctable = true and non-empty candidates, carries candidates[0],
   and neither the OCR text nor the text is sensitive; a queued task applies
   the text it carries, which is not sensitive, to an issue whose OCR text is
   not sensitive, whatever the issue's flag and candidates have become
   since. *)
C39_BatchNeverSensitive ==
    [][/\ BatchRequestStep =>
            \A c \in NewRows :
               BatchEligible(issues[corrections'[c].issue_id],
                             corrections'[c].corrected_text)
       /\ DispatchStep =>
            \A k \in (Len(req) + 1)..Len(req') :
               BatchEligible(issues[req'[k].issue_id], req'[k].corrected_text)
       /\ QueuedApplyStep =>
            \A c \in NewRows :
               /\ \E k \in 1..Len(req) :
                     /\ req[k].issue_id = corrections'[c].issue_id
                     /\ req[k].corrected_text = corrections'[c].corrected_text
               /\ ~contains_sensitive_pattern(corrections'[c].corrected_text)
               /\ ~contains_sensitive_pattern(
                      issues[corrections'[c].issue_id].ocr_text)]_vars

\* a queued task has applied its text to an issue whose candidates were
\* regenerated after the dispatch, next to an issue with a sensitive OCR text
\* that no batch operation touched
C39_Witness ==
    /\ \E c \in DOMAIN corrections :
          /\ corrections[c].issue_id \in DOMAIN issues
          /\ ~issues[corrections[c].issue_id].auto_correctable
          /\ HasCandidates(issues[corrections[c].issue_id])
          /\ issues[corrections[c].issue_id].candidates[1][1].text
                # corrections[c].corrected_text
    /\ \E i \in DOMAIN issues :
          /\ contains_sensitive_pattern(issues[i].ocr_text)
          /\ HasCandidates(issues[i])
          /\ \A c \in DOMAIN corrections : corrections[c].issue_id # i


\* the stored issues the detector created for the block: its text and its box
StoredForBlock(block) ==
    {i \in DOMAIN issues :
        /\ issues[i].issue_type # "manual"
        /\ issues[i].ocr_text = block.text
        /\ issues[i].bbox_x = block.bbox.x
        /\ issues[i].bbox_y = block.bbox.y
        /\ issues[i].bbox_width = block.bbox.width
        /\ issues[i].bbox_height = block.bbox.height}

(* C40: after any sequence of OCR runs and detection runs on the page, at
   most max_issues_per_page issues of the detector are stored for it, and no
   block of its OCR result is represented by more than one stored issue. *)
C40_StoredIssuesWithinCap ==
    /\ Cardinality({i \in DOMAIN issues : issues[i].issue_type # "manual"})
          <= max_issues_per_page
    /\ (page_row # None /\ page_row[1].ocr_result # None) =>
          \A k \in 1..Len(page_row[1].ocr_result[1]) :
             Cardinality(StoredForBlock(page_row[1].ocr_result[1][k])) <= 1


=============================================================================
